---- MODULE Spec2Model ----
(***************************************************************************)
(* The trading System of hikyuu (SystemBase.cpp) as a state machine: the   *)
(* per-bar procedure _runMoment, the delayed-order requests and the        *)
(* immediate and delayed buy/sell paths.  Prices and quantities are small  *)
(* naturals; the plugins (Environment, Condition, Signal, Stoploss,        *)
(* TakeProfit, ProfitGoal, MoneyManager, Slippage) and the TradeManager's  *)
(* acceptance are inputs drawn per call.                                   *)
(*                                                                         *)
(* And its TimerManager (TimerManager.h): the timer map, the heap of next  *)
(* instants, the caller's start, stop and addFunc, and the detectThread     *)
(* threads, interleaved at their lock, wait and notify steps.  Time is in  *)
(* ticks, DayLen of them in a day.                                         *)
(***************************************************************************)
EXTENDS Integers, Sequences, FiniteSets, Bags, TLC

\* ---------------------------------------------------------------- bounds
\* Number of bars of the candle series fed by run().
MaxBars == 2

\* Stock metadata: m_stock.minTradeNumber() and m_stock.maxTradeNumber().
MinTradeNumber == 2
MaxTradeNumber == 2

\* The price levels: a low and a high one, which order a plan price against a
\* stoploss, a goal or a take-profit price in each of the three ways.
Prices == {1, 2}

\* ------------------------------------------------------------ value types
Parts == {"ENVIRONMENT", "CONDITION", "SIGNAL", "STOPLOSS", "TAKEPROFIT",
          "PROFITGOAL", "PORTFOLIO", "ALLOCATEFUNDS"}

\* KRecord: one bar.  datetime 0 is the null Datetime.
KRecord(d, o, h, l, c) ==
  [datetime |-> d, openPrice |-> o, highPrice |-> h, lowPrice |-> l, closePrice |-> c]

\* KRecord(datetime): a bar that carries only a datetime, all prices 0.
KRecordAt(d) == KRecord(d, 0, 0, 0, 0)

NullKRecord == KRecord(0, 0, 0, 0, 0)

\* The bars a series may hold at datetime d: low <= open <= high; the close is
\* free, so a close outside [low, high] (bad data) occurs.
BarsAt(d) ==
  {KRecord(d, o, h, l, c) : <<o, h, l, c>> \in
     {p \in Prices \X Prices \X Prices \X Prices : p[3] <= p[1] /\ p[1] <= p[2]}}

\* TradeRecord(): the null record, business NONE.
NullTradeRecord ==
  [business |-> "NONE", datetime |-> 0, realPrice |-> 0, number |-> 0,
   stoploss |-> 0, goalPrice |-> 0, planPrice |-> 0, from |-> "NONE"]

isNull(tr) == tr.business = "NONE"

\* OrderRequest after clear().
ClearedRequest ==
  [valid |-> FALSE, business |-> "NONE", from |-> "NONE", datetime |-> 0,
   stoploss |-> 0, goal |-> 0, number |-> 0, count |-> 0]

\* ------------------------------------------------------------- parameters
\* System::initParam: the defaults.
initParam ==
  [max_delay_count |-> 3, delay |-> TRUE, delay_use_current_price |-> TRUE,
   tp_monotonic |-> TRUE, tp_delay_n |-> 3, ignore_sell_sg |-> FALSE,
   can_trade_when_high_eq_low |-> FALSE, ev_open_position |-> FALSE,
   cn_open_position |-> FALSE, support_borrow_cash |-> FALSE,
   support_borrow_stock |-> FALSE]

VARIABLES
  m_params,               \* the parameter map
  plugins,                \* which of m_tm, m_mm, m_sg, m_ev, m_cn, m_st, m_tp, m_pg, m_sp are set
  total,                  \* kdata.size() of the series run() iterates over
  running,                \* readyForRun() has succeeded and the bar loop is on
  now,                    \* datetime of the last bar passed to runMoment (0: none)
  today,                  \* the bar last passed to runMoment
  tm,                     \* the TradeManager: long position, short position, last order
  m_buyRequest, m_sellRequest, m_sellShortRequest, m_buyShortRequest,
  m_trade_list,
  m_lastTakeProfit, m_lastShortTakeProfit,
  m_pre_ev_valid, m_pre_cn_valid,
  m_buy_days, m_sell_short_days

\* The state of the System.
svars == <<m_params, plugins, total, running, now, today, tm,
           m_buyRequest, m_sellRequest, m_sellShortRequest, m_buyShortRequest,
           m_trade_list, m_lastTakeProfit, m_lastShortTakeProfit,
           m_pre_ev_valid, m_pre_cn_valid, m_buy_days, m_sell_short_days>>

\* The TimerManager, its threads and its caller.
VARIABLES
  clock,                  \* Datetime::now(), in ticks
  m_timers,               \* timer id -> Timer
  m_queue,                \* the heap of IntervalS, as a bag
  m_stop,
  m_current_timer_id,
  m_tg,                   \* the ThreadPool: made or not, and the tasks submitted to it
  detect,                 \* the detectThread threads started so far
  call,                   \* the caller's thread: where it is in start, stop or _addFunc
  registered              \* the timers accepted so far, as they were asked for

\* The state of the TimerManager.
tvars == <<clock, m_timers, m_queue, m_stop, m_current_timer_id, m_tg, detect,
           call, registered>>

\* A second System, made by clone(): made or not, its TradeManager instance,
\* its members, and the datetime of the last bar it has been fed itself.
VARIABLES twin

vars == <<svars, tvars, twin>>

\* No clone has been made.
NoTwin == [made |-> FALSE]

\* The caller is in no call; raised tells whether its last call threw.
Idle(raised) == [pc |-> "idle", raised |-> raised]

\* TimerManager::TimerManager: stopped, no timer, no pool, no thread.
TimerManagerConstructed ==
  /\ clock = 0
  /\ m_timers = [i \in {} |-> 0]
  /\ m_queue = EmptyBag
  /\ m_stop = TRUE
  /\ m_current_timer_id = -1
  /\ m_tg = [made |-> FALSE, tasks |-> << >>]
  /\ detect = << >>
  /\ call = Idle(FALSE)
  /\ registered = << >>

getParam(name) == m_params[name]

\* The mutable members of System gathered in one record, so that the handlers
\* below are functions from System state to System state.  ret is the
\* TradeRecord the handler returns.
Sys ==
  [tm |-> tm, buyRequest |-> m_buyRequest, sellRequest |-> m_sellRequest,
   sellShortRequest |-> m_sellShortRequest, buyShortRequest |-> m_buyShortRequest,
   trade_list |-> m_trade_list, lastTakeProfit |-> m_lastTakeProfit,
   lastShortTakeProfit |-> m_lastShortTakeProfit,
   pre_ev_valid |-> m_pre_ev_valid, pre_cn_valid |-> m_pre_cn_valid,
   buy_days |-> m_buy_days, sell_short_days |-> m_sell_short_days,
   ret |-> NullTradeRecord]

Commit(s) ==
  /\ tm' = s.tm
  /\ m_buyRequest' = s.buyRequest
  /\ m_sellRequest' = s.sellRequest
  /\ m_sellShortRequest' = s.sellShortRequest
  /\ m_buyShortRequest' = s.buyShortRequest
  /\ m_trade_list' = s.trade_list
  /\ m_lastTakeProfit' = s.lastTakeProfit
  /\ m_lastShortTakeProfit' = s.lastShortTakeProfit
  /\ m_pre_ev_valid' = s.pre_ev_valid
  /\ m_pre_cn_valid' = s.pre_cn_valid
  /\ m_buy_days' = s.buy_days
  /\ m_sell_short_days' = s.sell_short_days

\* ------------------------------------------------------- plugin answers
\* What a plugin may answer to one query.  A plugin that is not set answers
\* its helper's default (_environmentIsValid: true, _getStoplossPrice: 0, ...).
EvAnswers == IF "ev" \in plugins THEN BOOLEAN ELSE {TRUE}
CnAnswers == IF "cn" \in plugins THEN BOOLEAN ELSE {TRUE}
\* Stoploss.get: a price level (0, no stoploss, when the plugin is not set).
StAnswers == IF "st" \in plugins THEN Prices ELSE {0}
TpAnswers == IF "tp" \in plugins THEN {0} \cup Prices ELSE {0}
\* ProfitGoal: 0 (no goal) or a goal above every price.
PgAnswers == IF "pg" \in plugins THEN {0, Cardinality(Prices) + 1} ELSE {0}
\* MoneyManager: nothing, one lot, or one lot and a share.
NumAnswers ==
  IF "mm" \in plugins THEN {0, MinTradeNumber, MinTradeNumber + 1} ELSE {0}
\* Slippage: the real price is the plan price moved by slip.
SpAnswers == IF "sp" \in plugins THEN {0, 1} ELSE {0}

\* The answers one order handler consumes: Stoploss.get, MoneyManager's number,
\* ProfitGoal.get, Slippage, TakeProfit.get, and whether the TradeManager accepts.
Q(st, n, g, sp, tp, ok) ==
  [stoploss |-> st, number |-> n, goal |-> g, slip |-> sp, tp |-> tp, ok |-> ok]

NoAnswers == Q(0, 0, 0, 0, 0, TRUE)

\* ---------------------------------------------------------- TradeManager
NoOrder == [op |-> "none", datetime |-> 0, realPrice |-> 0, number |-> 0,
            stoploss |-> 0, goalPrice |-> 0, planPrice |-> 0, from |-> "NONE"]

Order(op, d, realPrice, number, stoploss, goalPrice, planPrice, from) ==
  [op |-> op, datetime |-> d, realPrice |-> realPrice, number |-> number,
   stoploss |-> stoploss, goalPrice |-> goalPrice, planPrice |-> planPrice,
   from |-> from]

\* The record the TradeManager returns for an accepted order.
Executed(business, o) ==
  [business |-> business, datetime |-> o.datetime, realPrice |-> o.realPrice,
   number |-> o.number, stoploss |-> o.stoploss, goalPrice |-> o.goalPrice,
   planPrice |-> o.planPrice, from |-> o.from]

\* TradeManager::buy: refuses (business NONE) a zero number or when it decides
\* to (ok false: not enough cash, a rule); else adds to the long position.
tm_buy(t, o, ok) ==
  IF ok /\ o.number > 0
    THEN [tm |-> [t EXCEPT !.number = @ + o.number, !.stoploss = o.stoploss,
                           !.goalPrice = o.goalPrice, !.last = o],
          record |-> Executed("BUY", o)]
    ELSE [tm |-> [t EXCEPT !.last = o], record |-> NullTradeRecord]

\* TradeManager::sell: refuses a zero number, more than is held, or when it
\* decides to; else reduces the long position (a position sold out is closed).
tm_sell(t, o, ok) ==
  IF ok /\ o.number > 0 /\ o.number <= t.number
    THEN [tm |-> IF o.number = t.number
                   THEN [t EXCEPT !.number = 0, !.stoploss = 0, !.goalPrice = 0,
                                  !.last = o]
                   ELSE [t EXCEPT !.number = @ - o.number, !.stoploss = o.stoploss,
                                  !.goalPrice = o.goalPrice, !.last = o],
          record |-> Executed("SELL", o)]
    ELSE [tm |-> [t EXCEPT !.last = o], record |-> NullTradeRecord]

\* TradeManager::buyShort: buys back part of the short position.
tm_buyShort(t, o, ok) ==
  IF ok /\ o.number > 0 /\ o.number <= t.short
    THEN [tm |-> [t EXCEPT !.short = @ - o.number, !.last = o],
          record |-> Executed("BUY_SHORT", o)]
    ELSE [tm |-> [t EXCEPT !.last = o], record |-> NullTradeRecord]

\* m_tm->have(m_stock), m_tm->getHoldNumber(datetime, m_stock)
have(s) == s.tm.number > 0
getHoldNumber(s) == s.tm.number

\* ------------------------------------------------------------- long entry
\* number = number / min_num * min_num on doubles: the division keeps the
\* fraction (3 / 2 * 2 is 1.5 * 2 = 3), computed here in units of 1/min_num.
RoundToLot(number, min_num) ==
  IF min_num > 1 THEN ((number * min_num) * min_num) \div (min_num * min_num)
  ELSE number

\* The guard with < in place of <=: a buy at the stoploss price passes.
BuyStoplossGuardStrict(planPrice, stoploss) == planPrice < stoploss

\* _buyNow line 459, _buyDelay line 516: the order is dropped when the plan
\* price is not above the stoploss.
BuyStoplossGuard(planPrice, stoploss) == planPrice <= stoploss

\* _buyNow line 465: no number, or more than the stock allows in one trade.
BuyNowNumberGuard(number) == number = 0 \/ number > MaxTradeNumber

\* _buyDelay line 490 (and _sellDelay line 660): a bar without a price range
\* is not traded on unless the parameter allows it.
DelayFlatGuard(kr) ==
  kr.highPrice = kr.lowPrice /\ ~getParam("can_trade_when_high_eq_low")

\* System::_submitBuyRequest
_submitBuyRequest(s, kr, from, q) ==
  IF s.buyRequest.valid
    THEN IF s.buyRequest.count > getParam("max_delay_count")
           THEN [s EXCEPT !.buyRequest = ClearedRequest]
           ELSE [s EXCEPT !.buyRequest =
                   [@ EXCEPT !.count = @ + 1, !.datetime = kr.datetime,
                             !.stoploss = q.stoploss, !.goal = q.goal,
                             !.number = q.number]]
    ELSE [s EXCEPT !.buyRequest =
            [valid |-> TRUE, business |-> "BUY", from |-> from,
             datetime |-> kr.datetime, stoploss |-> q.stoploss, goal |-> q.goal,
             number |-> q.number, count |-> 1]]

\* System::_buyNow
_buyNow(s, kr, from, q) ==
  LET planPrice == kr.closePrice
      stoploss == q.stoploss
      number == RoundToLot(q.number, MinTradeNumber)
      realPrice == planPrice + q.slip
      r == tm_buy(s.tm, Order("buy", kr.datetime, realPrice, number, stoploss,
                              q.goal, planPrice, from), q.ok)
  IN  IF BuyStoplossGuard(planPrice, stoploss) THEN s
      ELSE IF BuyNowNumberGuard(q.number) THEN s
      ELSE IF r.record.business # "BUY" THEN [s EXCEPT !.tm = r.tm]
      ELSE [s EXCEPT !.tm = r.tm, !.lastTakeProfit = q.tp,
                     !.trade_list = Append(@, r.record), !.ret = r.record]

\* System::_buyDelay
_buyDelay(s, kr, q) ==
  LET planPrice == kr.openPrice
      ucp == getParam("delay_use_current_price")
      stoploss == IF ucp THEN q.stoploss ELSE s.buyRequest.stoploss
      number0 == IF ucp THEN q.number ELSE s.buyRequest.number
      goalPrice == IF ucp THEN q.goal ELSE s.buyRequest.goal
      number == RoundToLot(number0, MinTradeNumber)
      realPrice == planPrice + q.slip
      r == tm_buy(s.tm, Order("buy", kr.datetime, realPrice, number, stoploss,
                              goalPrice, planPrice, s.buyRequest.from), q.ok)
  IN  IF DelayFlatGuard(kr)
        THEN _submitBuyRequest(s, KRecordAt(s.buyRequest.datetime),
                               s.buyRequest.from, q)
      ELSE IF BuyStoplossGuard(planPrice, stoploss) \/ number0 = 0
        THEN [s EXCEPT !.buyRequest = ClearedRequest]
      ELSE IF r.record.business # "BUY"
        THEN [s EXCEPT !.tm = r.tm, !.buyRequest = ClearedRequest]
      ELSE [s EXCEPT !.tm = r.tm, !.buy_days = 0, !.lastTakeProfit = realPrice,
                     !.trade_list = Append(@, r.record),
                     !.buyRequest = ClearedRequest, !.ret = r.record]

\* _buy without its test of delay: the entry is made on the decision bar.
_buyAlwaysNow(s, kr, from, q) == _buyNow(s, kr, from, q)

\* System::_buy
_buy(s, kr, from, q) ==
  IF getParam("delay") THEN _submitBuyRequest(s, kr, from, q)
  ELSE _buyNow(s, kr, from, q)

\* -------------------------------------------------------------- long exit
\* _sellNow line 627, _submitSellRequest line 731: at or below the stoploss
\* the whole holding is sold.
SellAllGuard(planPrice, stoploss) == planPrice <= stoploss

\* _sellDelay line 677: the same decision on the execution bar.
SellDelayAllGuard(planPrice, stoploss) == planPrice < stoploss

\* System::_submitSellRequest
_submitSellRequest(s, kr, from, q) ==
  IF s.sellRequest.valid /\ s.sellRequest.count > getParam("max_delay_count")
    THEN [s EXCEPT !.sellRequest = ClearedRequest]
    ELSE [s EXCEPT !.sellRequest =
            [valid |-> TRUE, business |-> "SELL", from |-> from,
             datetime |-> kr.datetime, stoploss |-> q.stoploss, goal |-> q.goal,
             number |-> IF SellAllGuard(kr.closePrice, q.stoploss)
                          THEN getHoldNumber(s) ELSE q.number,
             count |-> IF s.sellRequest.valid THEN s.sellRequest.count + 1 ELSE 1]]

\* System::_sellNow
_sellNow(s, kr, from, q) ==
  LET planPrice == kr.closePrice
      stoploss == q.stoploss
      all == SellAllGuard(planPrice, stoploss)
      number == IF all THEN getHoldNumber(s) ELSE q.number
      realPrice == planPrice - q.slip
      r == tm_sell(s.tm, Order("sell", kr.datetime, realPrice, number, stoploss,
                               q.goal, planPrice, from), q.ok)
  IN  IF ~all /\ number = 0 THEN s
      ELSE IF r.record.business # "SELL" THEN [s EXCEPT !.tm = r.tm]
      ELSE [s EXCEPT !.tm = r.tm,
                     !.lastTakeProfit = IF r.tm.number = 0 THEN 0 ELSE q.tp,
                     !.trade_list = Append(@, r.record), !.ret = r.record]

\* System::_sellDelay
_sellDelay(s, kr, q) ==
  LET planPrice == kr.openPrice
      ucp == getParam("delay_use_current_price")
      from == s.sellRequest.from
      stoploss == IF ucp THEN q.stoploss ELSE s.sellRequest.stoploss
      number == IF ucp
                  THEN IF SellDelayAllGuard(planPrice, stoploss)
                         THEN getHoldNumber(s) ELSE q.number
                  ELSE s.sellRequest.number
      goalPrice == IF ucp THEN q.goal ELSE s.sellRequest.goal
      realPrice == planPrice - q.slip
      r == tm_sell(s.tm, Order("sell", kr.datetime, realPrice, number, stoploss,
                               goalPrice, planPrice, from), q.ok)
  IN  IF DelayFlatGuard(kr)
        THEN _submitSellRequest(s, KRecordAt(s.sellRequest.datetime), from, q)
      ELSE IF number = 0
        THEN [s EXCEPT !.sellRequest = ClearedRequest]
      ELSE IF r.record.business # "SELL"
        THEN [s EXCEPT !.tm = r.tm, !.sellRequest = ClearedRequest]
      ELSE [s EXCEPT !.tm = r.tm,
                     !.lastTakeProfit = IF r.tm.number = 0 THEN 0 ELSE @,
                     !.trade_list = Append(@, r.record),
                     !.sellRequest = ClearedRequest, !.ret = r.record]

\* _sell without its test of delay: the exit is made on the decision bar.
_sellAlwaysNow(s, kr, from, q) == _sellNow(s, kr, from, q)

\* System::_sell
_sell(s, kr, from, q) ==
  IF getParam("delay") THEN _submitSellRequest(s, kr, from, q)
  ELSE _sellNow(s, kr, from, q)

\* System::_sellForce: the sell a Portfolio or an Allocator orders.
_sellForce(s, kr, num, from, q) ==
  IF getParam("delay")
    THEN IF s.sellRequest.valid /\ s.sellRequest.count > getParam("max_delay_count")
           THEN [s EXCEPT !.sellRequest = ClearedRequest]
           ELSE [s EXCEPT !.sellRequest =
                   [valid |-> TRUE, business |-> "SELL", from |-> from,
                    datetime |-> kr.datetime, stoploss |-> s.tm.stoploss,
                    goal |-> s.tm.goalPrice, number |-> num,
                    count |-> IF s.sellRequest.valid
                                THEN s.sellRequest.count + 1 ELSE 1]]
    ELSE LET r == tm_sell(s.tm, Order("sell", kr.datetime, kr.closePrice - q.slip,
                                      num, s.tm.stoploss, s.tm.goalPrice,
                                      kr.closePrice, from), q.ok)
         IN  [s EXCEPT !.tm = r.tm, !.trade_list = Append(@, r.record),
                       !.ret = r.record]

\* ------------------------------------------------------------- short side
\* System::_submitSellShortRequest
_submitSellShortRequest(s, kr, from, q) ==
  IF s.sellShortRequest.valid
    THEN IF s.sellShortRequest.count > getParam("max_delay_count")
           THEN [s EXCEPT !.sellShortRequest = ClearedRequest]
           ELSE [s EXCEPT !.sellShortRequest =
                   [@ EXCEPT !.count = @ + 1, !.datetime = kr.datetime,
                             !.stoploss = q.stoploss, !.goal = q.goal,
                             !.number = q.number]]
    ELSE [s EXCEPT !.sellShortRequest =
            [valid |-> TRUE, business |-> "SELL_SHORT", from |-> from,
             datetime |-> kr.datetime, stoploss |-> q.stoploss, goal |-> q.goal,
             number |-> q.number, count |-> 1]]

\* _sellShortNow lines 923-928, _sellShortDelay lines 970-975: the order goes
\* to m_tm->sell and the answer is compared with BUSINESS_SELL_SHORT.
SellShortOrder(s, kr, planPrice, number, stoploss, goalPrice, from, q) ==
  LET r == tm_sell(s.tm, Order("sell", kr.datetime, planPrice - q.slip, number,
                               stoploss, goalPrice, planPrice, from), q.ok)
  IN  IF r.record.business # "SELL_SHORT"
        THEN [s EXCEPT !.tm = r.tm, !.sellShortRequest = ClearedRequest]
        ELSE [s EXCEPT !.tm = r.tm, !.sell_short_days = 0,
                       !.lastShortTakeProfit = planPrice - q.slip,
                       !.trade_list = Append(@, r.record),
                       !.sellShortRequest = ClearedRequest, !.ret = r.record]

\* System::_sellShortNow
_sellShortNow(s, kr, from, q) ==
  IF kr.highPrice = kr.lowPrice
    THEN _submitSellShortRequest(s, KRecordAt(kr.datetime), from, q)
  ELSE IF q.number = 0
    THEN [s EXCEPT !.sellShortRequest = ClearedRequest]
  ELSE SellShortOrder(s, kr, kr.closePrice, q.number, q.stoploss, q.goal,
                      "SIGNAL", q)

\* System::_sellShortDelay
_sellShortDelay(s, kr, q) ==
  LET ucp == getParam("delay_use_current_price")
      stoploss == IF ucp THEN q.stoploss ELSE s.sellShortRequest.stoploss
      number == IF ucp THEN q.number ELSE s.sellShortRequest.number
      goalPrice == IF ucp THEN q.goal ELSE s.sellShortRequest.goal
  IN  IF kr.highPrice = kr.lowPrice
        THEN _submitSellShortRequest(s, KRecordAt(s.sellShortRequest.datetime),
                                     s.sellShortRequest.from, q)
      ELSE IF number = 0
        THEN [s EXCEPT !.sellShortRequest = ClearedRequest]
      ELSE SellShortOrder(s, kr, kr.openPrice, number, stoploss, goalPrice,
                          s.sellShortRequest.from, q)

\* System::_sellShort
_sellShort(s, kr, from, q) ==
  IF ~getParam("support_borrow_stock") THEN s
  ELSE IF getParam("delay") THEN _submitSellShortRequest(s, kr, from, q)
  ELSE _sellShortNow(s, kr, from, q)

\* System::_submitBuyShortRequest
_submitBuyShortRequest(s, kr, from, q) ==
  IF s.buyShortRequest.valid
    THEN IF s.buyShortRequest.count > getParam("max_delay_count")
           THEN [s EXCEPT !.buyRequest = ClearedRequest]
           ELSE [s EXCEPT !.buyShortRequest =
                   [@ EXCEPT !.count = @ + 1, !.datetime = kr.datetime,
                             !.stoploss = q.stoploss, !.goal = q.goal,
                             !.number = q.number]]
    ELSE [s EXCEPT !.buyShortRequest =
            [valid |-> TRUE, business |-> "BUY", from |-> from,
             datetime |-> kr.datetime, stoploss |-> q.stoploss, goal |-> q.goal,
             number |-> q.number, count |-> 1]]

\* _buyShortNow lines 769-800, _buyShortDelay lines 829-858: cover at most the
\* short position; returnsRecord tells the two apart (the delayed path
\* returns the null record even after a trade).
BuyShortOrder(s, kr, planPrice, number0, stoploss, goalPrice, q, returnsRecord) ==
  LET number == IF number0 > s.tm.short THEN s.tm.short ELSE number0
      realPrice == planPrice + q.slip
      r == tm_buyShort(s.tm, Order("buyShort", kr.datetime, realPrice, number,
                                   stoploss, goalPrice, planPrice, "SIGNAL"), q.ok)
  IN  IF number0 = 0 \/ s.tm.short = 0
        THEN [s EXCEPT !.buyShortRequest = ClearedRequest]
      ELSE IF r.record.business # "BUY_SHORT"
        THEN [s EXCEPT !.tm = r.tm, !.buyShortRequest = ClearedRequest]
      ELSE [s EXCEPT !.tm = r.tm, !.sell_short_days = 0,
                     !.lastTakeProfit = realPrice,
                     !.trade_list = Append(@, r.record),
                     !.buyShortRequest = ClearedRequest,
                     !.ret = IF returnsRecord THEN r.record ELSE NullTradeRecord]

\* System::_buyShortNow
_buyShortNow(s, kr, from, q) ==
  IF kr.highPrice = kr.lowPrice THEN s
  ELSE BuyShortOrder(s, kr, kr.closePrice, q.number, q.stoploss, q.goal, q, TRUE)

\* System::_buyShortDelay
_buyShortDelay(s, kr, q) ==
  LET ucp == getParam("delay_use_current_price")
  IN  IF kr.highPrice = kr.lowPrice THEN s
      ELSE BuyShortOrder(s, kr, kr.openPrice,
                         IF ucp THEN q.number ELSE s.buyShortRequest.number,
                         IF ucp THEN q.stoploss ELSE s.buyShortRequest.stoploss,
                         IF ucp THEN q.goal ELSE s.buyShortRequest.goal, q, FALSE)

\* System::_buyShort
_buyShort(s, kr, from, q) ==
  IF ~getParam("support_borrow_stock") THEN s
  ELSE IF getParam("delay") THEN _submitBuyShortRequest(s, kr, from, q)
  ELSE _buyShortNow(s, kr, from, q)

\* ------------------------------------------------------- delayed orders
\* System::_processRequest: the first valid request, in this order.
_processRequest(s, kr, q) ==
  IF s.buyRequest.valid THEN _buyDelay(s, kr, q)
  ELSE IF s.sellRequest.valid THEN _sellDelay(s, kr, q)
  ELSE IF s.sellShortRequest.valid THEN _sellShortDelay(s, kr, q)
  ELSE IF s.buyShortRequest.valid THEN _buyShortDelay(s, kr, q)
  ELSE s

\* ----------------------------------------------------- the per-bar phases
\* _runMoment lines 316-318: the bars no decision is taken on.
DegenerateGate(kr) ==
  /\ \/ kr.highPrice = kr.lowPrice
     \/ kr.closePrice > kr.highPrice
     \/ kr.closePrice < kr.lowPrice
  /\ ~getParam("can_trade_when_high_eq_low")

\* What a phase leaves: the state, whether _runMoment returns after it, and
\* the order it issues (op "buy" or "sell" with its origin, or "none").
Phase(s, done, op, from) == [s |-> s, done |-> done, op |-> op, from |-> from]

\* _runMoment lines 329-353: the environment.
EnvironmentPhase(s, ev) ==
  LET s1 == [s EXCEPT !.pre_ev_valid = ev]
  IN  IF ~ev
        THEN Phase(s1, TRUE, IF have(s) THEN "sell" ELSE "none", "ENVIRONMENT")
      ELSE IF ~s.pre_ev_valid /\ getParam("ev_open_position")
        THEN Phase(s1, TRUE, "buy", "ENVIRONMENT")
      ELSE Phase(s1, FALSE, "none", "NONE")

\* _runMoment lines 359-383: the system condition.
ConditionPhase(s, cn) ==
  LET s1 == [s EXCEPT !.pre_cn_valid = cn]
  IN  IF ~cn
        THEN Phase(s1, TRUE, IF have(s) THEN "sell" ELSE "none", "CONDITION")
      ELSE IF ~s.pre_cn_valid /\ getParam("cn_open_position")
        THEN Phase(s1, TRUE, "buy", "CONDITION")
      ELSE Phase(s1, FALSE, "none", "NONE")

\* _runMoment lines 389-403: the signal; shouldSell is asked only when
\* shouldBuy is false.
SignalPhase(s, shouldBuy, shouldSell) ==
  IF shouldBuy THEN Phase(s, TRUE, "buy", "SIGNAL")
  ELSE IF shouldSell
    THEN Phase(s, TRUE, IF have(s) THEN "sell" ELSE "none", "SIGNAL")
  ELSE Phase(s, FALSE, "none", "NONE")

\* _runMoment line 414: the close is at or under the position's stoploss.
StoplossHit(s, kr) == kr.closePrice <= s.tm.stoploss

\* _runMoment line 417: the close has reached the profit goal.
GoalHit(kr, goal) == kr.closePrice >= goal

\* _runMoment lines 409-436: stoploss, profit goal, trailing take-profit.
PositionPhase(s, kr, goal, tp) ==
  LET take == IF tp < s.lastTakeProfit THEN s.lastTakeProfit ELSE tp
  IN  IF s.tm.number = 0 THEN Phase(s, TRUE, "none", "NONE")
      ELSE IF StoplossHit(s, kr) THEN Phase(s, TRUE, "sell", "STOPLOSS")
      ELSE IF GoalHit(kr, goal) THEN Phase(s, TRUE, "sell", "PROFITGOAL")
      ELSE IF tp = 0 THEN Phase(s, TRUE, "none", "NONE")
      ELSE Phase([s EXCEPT !.lastTakeProfit = take], TRUE,
                 IF kr.closePrice <= take THEN "sell" ELSE "none", "TAKEPROFIT")

\* The answers of Environment.isValid, Condition.isValid, Signal.shouldBuy,
\* Signal.shouldSell, ProfitGoal.get and TakeProfit.get on one bar.
D(ev, cn, sb, ss, goal, tp) ==
  [ev |-> ev, cn |-> cn, shouldBuy |-> sb, shouldSell |-> ss, goal |-> goal, tp |-> tp]

\* _runMoment lines 329-436: the phases in order, each returning when it has
\* issued an order or found its part invalid.
Decide(s, kr, d) ==
  LET e == EnvironmentPhase(s, d.ev)
      c == ConditionPhase(e.s, d.cn)
      g == SignalPhase(c.s, d.shouldBuy, d.shouldSell)
  IN  IF e.done THEN e
      ELSE IF c.done THEN c
      ELSE IF g.done THEN g
      ELSE PositionPhase(g.s, kr, d.goal, d.tp)

\* The order a phase issues, through _buy or _sell.
Issue(dec, kr, q) ==
  IF dec.op = "buy" THEN _buy(dec.s, kr, dec.from, q)
  ELSE IF dec.op = "sell" THEN _sell(dec.s, kr, dec.from, q)
  ELSE dec.s

\* All the answers one call of runMoment consumes: x for the delayed order,
\* d for the phases, o for the order a phase issues.
A(x, d, o) == [x |-> x, d |-> d, o |-> o]

\* System::_runMoment
_runMoment(s, kr, a) ==
  IF DegenerateGate(kr) THEN s
  ELSE LET s1 == _processRequest(s, kr, a.x)
           dec == Decide([s1 EXCEPT !.ret = NullTradeRecord], kr, a.d)
           s2 == Issue(dec, kr, a.o)
       IN  [s2 EXCEPT !.ret = IF isNull(s2.ret) THEN s1.ret ELSE s2.ret]

\* System::runMoment(const KRecord&)
runMoment(s, kr, a) ==
  _runMoment([s EXCEPT !.buy_days = @ + 1, !.sell_short_days = @ + 1], kr, a)

\* --------------------------------------------- the answers a call consumes
\* A handler asks a plugin only on the path that needs the answer; the sets
\* below draw an answer for each query made and the default for the others.

\* _submitBuyRequest, _submitSellShortRequest, _submitBuyShortRequest:
\* stoploss, goal and number, unless the request is dropped for its count.
SubmitAnswers(req) ==
  IF req.valid /\ req.count > getParam("max_delay_count") THEN {NoAnswers}
  ELSE {Q(st, n, g, 0, 0, TRUE) : st \in StAnswers, n \in NumAnswers, g \in PgAnswers}

\* _submitSellRequest: the number is asked only above the stoploss.
SubmitSellAnswers(req, kr) ==
  IF req.valid /\ req.count > getParam("max_delay_count") THEN {NoAnswers}
  ELSE UNION {{Q(st, n, g, 0, 0, TRUE) :
                 n \in IF SellAllGuard(kr.closePrice, st) THEN {0} ELSE NumAnswers,
                 g \in PgAnswers} : st \in StAnswers}

\* What follows once an order reaches the TradeManager: goal, slippage, its
\* acceptance, and the take-profit price asked after an accepted order.
SentAnswers(st, n, askTp) ==
  {Q(st, n, g, sp, 0, FALSE) : g \in PgAnswers, sp \in SpAnswers}
    \cup {Q(st, n, g, sp, tp, TRUE) :
            g \in PgAnswers, sp \in SpAnswers,
            tp \in IF askTp THEN TpAnswers ELSE {0}}

\* What follows when only slippage and the acceptance are still open.
BufferedAnswers == {Q(0, 0, 0, sp, 0, ok) : sp \in SpAnswers, ok \in BOOLEAN}

BuyNowAnswers(kr) ==
  UNION {IF BuyStoplossGuard(kr.closePrice, st) THEN {Q(st, 0, 0, 0, 0, TRUE)}
         ELSE UNION {IF BuyNowNumberGuard(n) THEN {Q(st, n, 0, 0, 0, TRUE)}
                     ELSE SentAnswers(st, n, TRUE) : n \in NumAnswers}
         : st \in StAnswers}

SellNowAnswers(kr) ==
  UNION {IF SellAllGuard(kr.closePrice, st) THEN SentAnswers(st, 0, TRUE)
         ELSE UNION {IF n = 0 THEN {Q(st, 0, 0, 0, 0, TRUE)}
                     ELSE SentAnswers(st, n, TRUE) : n \in NumAnswers}
         : st \in StAnswers}

BuyDelayAnswers(s, kr) ==
  IF DelayFlatGuard(kr) THEN SubmitAnswers(s.buyRequest)
  ELSE IF getParam("delay_use_current_price")
    THEN UNION {IF BuyStoplossGuard(kr.openPrice, st) THEN {Q(st, 0, 0, 0, 0, TRUE)}
                ELSE UNION {IF n = 0 THEN {Q(st, 0, 0, 0, 0, TRUE)}
                            ELSE SentAnswers(st, n, FALSE) : n \in NumAnswers}
                : st \in StAnswers}
  ELSE IF BuyStoplossGuard(kr.openPrice, s.buyRequest.stoploss)
          \/ s.buyRequest.number = 0
    THEN {NoAnswers}
  ELSE BufferedAnswers

SellDelayAnswers(s, kr) ==
  IF DelayFlatGuard(kr)
    THEN SubmitSellAnswers(s.sellRequest, KRecordAt(s.sellRequest.datetime))
  ELSE IF getParam("delay_use_current_price")
    THEN UNION {IF SellDelayAllGuard(kr.openPrice, st)
                  THEN IF getHoldNumber(s) = 0 THEN {Q(st, 0, 0, 0, 0, TRUE)}
                       ELSE SentAnswers(st, 0, FALSE)
                ELSE UNION {IF n = 0 THEN {Q(st, 0, 0, 0, 0, TRUE)}
                            ELSE SentAnswers(st, n, FALSE) : n \in NumAnswers}
                : st \in StAnswers}
  ELSE IF s.sellRequest.number = 0 THEN {NoAnswers}
  ELSE BufferedAnswers

\* _sellShortNow, _sellShortDelay, _buyShortNow, _buyShortDelay past the
\* flat-bar test: stoploss and number, then the order.
ShortAnswers(req, buffered) ==
  IF buffered
    THEN IF req.number = 0 THEN {NoAnswers} ELSE BufferedAnswers
  ELSE UNION {IF n = 0 THEN {Q(st, 0, 0, 0, 0, TRUE) : st \in StAnswers}
              ELSE UNION {SentAnswers(st, n, FALSE) : st \in StAnswers}
              : n \in NumAnswers}

SellShortDelayAnswers(s, kr) ==
  IF kr.highPrice = kr.lowPrice THEN SubmitAnswers(s.sellShortRequest)
  ELSE ShortAnswers(s.sellShortRequest, ~getParam("delay_use_current_price"))

BuyShortDelayAnswers(s, kr) ==
  IF kr.highPrice = kr.lowPrice THEN {NoAnswers}
  ELSE ShortAnswers(s.buyShortRequest, ~getParam("delay_use_current_price"))

\* _processRequest: the answers of the one handler it calls.
DelayAnswers(s, kr) ==
  IF s.buyRequest.valid THEN BuyDelayAnswers(s, kr)
  ELSE IF s.sellRequest.valid THEN SellDelayAnswers(s, kr)
  ELSE IF s.sellShortRequest.valid THEN SellShortDelayAnswers(s, kr)
  ELSE IF s.buyShortRequest.valid THEN BuyShortDelayAnswers(s, kr)
  ELSE {NoAnswers}

\* The phases: each plugin is asked only if the phases before it went on.
PositionAnswers(s, kr) ==
  IF s.tm.number = 0 \/ StoplossHit(s, kr) THEN {D(TRUE, TRUE, FALSE, FALSE, 0, 0)}
  ELSE UNION {IF GoalHit(kr, g) THEN {D(TRUE, TRUE, FALSE, FALSE, g, 0)}
              ELSE {D(TRUE, TRUE, FALSE, FALSE, g, tp) : tp \in TpAnswers}
              : g \in PgAnswers}

SignalAnswers(s, kr) ==
  {D(TRUE, TRUE, TRUE, FALSE, 0, 0), D(TRUE, TRUE, FALSE, TRUE, 0, 0)}
    \cup PositionAnswers(s, kr)

ConditionAnswers(s, kr) ==
  UNION {IF ConditionPhase(s, cn).done THEN {D(TRUE, cn, FALSE, FALSE, 0, 0)}
         ELSE SignalAnswers(ConditionPhase(s, cn).s, kr) : cn \in CnAnswers}

DecisionAnswers(s, kr) ==
  UNION {IF EnvironmentPhase(s, ev).done THEN {D(ev, TRUE, FALSE, FALSE, 0, 0)}
         ELSE ConditionAnswers(EnvironmentPhase(s, ev).s, kr) : ev \in EvAnswers}

\* _buy, _sell: the answers of the handler the order goes to.
OrderAnswers(dec, kr) ==
  IF dec.op = "buy"
    THEN IF getParam("delay") THEN SubmitAnswers(dec.s.buyRequest)
         ELSE BuyNowAnswers(kr)
  ELSE IF dec.op = "sell"
    THEN IF getParam("delay") THEN SubmitSellAnswers(dec.s.sellRequest, kr)
         ELSE SellNowAnswers(kr)
  ELSE {NoAnswers}

PhaseAnswers(s1, kr, x) ==
  UNION {{A(x, d, o) : o \in OrderAnswers(Decide(s1, kr, d), kr)}
         : d \in DecisionAnswers(s1, kr)}

RunMomentAnswers(s, kr) ==
  IF DegenerateGate(kr)
    THEN {A(NoAnswers, D(TRUE, TRUE, FALSE, FALSE, 0, 0), NoAnswers)}
  ELSE UNION {PhaseAnswers(_processRequest(s, kr, x), kr, x)
              : x \in DelayAnswers(s, kr)}

\* _sellShort, _buyShort: the answers of the handler the call goes to.
SellShortAnswers(s, kr) ==
  IF ~getParam("support_borrow_stock") THEN {NoAnswers}
  ELSE IF getParam("delay") \/ kr.highPrice = kr.lowPrice
    THEN SubmitAnswers(s.sellShortRequest)
  ELSE ShortAnswers(s.sellShortRequest, FALSE)

BuyShortAnswers(s, kr) ==
  IF ~getParam("support_borrow_stock") THEN {NoAnswers}
  ELSE IF getParam("delay") THEN SubmitAnswers(s.buyShortRequest)
  ELSE IF kr.highPrice = kr.lowPrice THEN {NoAnswers}
  ELSE ShortAnswers(s.buyShortRequest, FALSE)

\* ------------------------------------------------------------ run, reset
InitTM == [number |-> 0, stoploss |-> 0, goalPrice |-> 0, short |-> 0,
           last |-> NoOrder]

\* System::reset(true, true)
reset(s) ==
  [s EXCEPT !.tm = IF "tm" \in plugins THEN InitTM ELSE @,
            !.pre_ev_valid = FALSE, !.pre_cn_valid = FALSE,
            !.buy_days = 0, !.sell_short_days = 0, !.trade_list = <<>>,
            !.lastTakeProfit = 0, !.lastShortTakeProfit = 0,
            !.buyRequest = ClearedRequest, !.sellRequest = ClearedRequest,
            !.sellShortRequest = ClearedRequest,
            !.buyShortRequest = ClearedRequest]

\* System::readyForRun: its answer.
readyForRun == {"tm", "mm", "sg"} \subseteq plugins

\* System::readyForRun: what it leaves when it succeeds.
readied(s) ==
  [s EXCEPT !.pre_ev_valid = IF "ev" \in plugins THEN FALSE ELSE @,
            !.pre_cn_valid = IF "cn" \in plugins THEN FALSE ELSE @]

\* ---------------------------------------------------------------- actions
\* System::run up to its loop: the optional reset, then readyForRun.
Run ==
  /\ ~running
  /\ now = 0
  /\ \E doReset \in BOOLEAN :
       LET s1 == IF doReset THEN reset(Sys) ELSE Sys
       IN  IF readyForRun
             THEN /\ running' = TRUE
                  /\ Commit(readied(s1))
             ELSE /\ running' = FALSE
                  /\ Commit(s1)
  /\ UNCHANGED <<m_params, plugins, total, now, today>>
  /\ UNCHANGED <<tvars, twin>>

\* One turn of run()'s loop: runMoment on the next bar of the series.
RunMoment ==
  /\ running
  /\ now < total
  /\ \E kr \in BarsAt(now + 1) :
       \E a \in RunMomentAnswers(Sys, kr) :
         /\ Commit(runMoment(Sys, kr, a))
         /\ today' = kr
  /\ now' = now + 1
  /\ UNCHANGED <<m_params, plugins, total, running>>
  /\ UNCHANGED <<tvars, twin>>

\* A call of _sellShort(today, PART_SIGNAL) on the current bar.
SellShort ==
  /\ running
  /\ now > 0
  /\ \E q \in SellShortAnswers(Sys, today) :
       Commit(_sellShort(Sys, today, "SIGNAL", q))
  /\ UNCHANGED <<m_params, plugins, total, running, now, today>>
  /\ UNCHANGED <<tvars, twin>>

\* A call of _buyShort(today, PART_SIGNAL) on the current bar.
BuyShort ==
  /\ running
  /\ now > 0
  /\ \E q \in BuyShortAnswers(Sys, today) :
       Commit(_buyShort(Sys, today, "SIGNAL", q))
  /\ UNCHANGED <<m_params, plugins, total, running, now, today>>
  /\ UNCHANGED <<tvars, twin>>

\* _sellForce: slippage and the TradeManager's acceptance are open when the
\* order is sent at once; a delayed one asks nothing.
SellForceAnswers == IF getParam("delay") THEN {NoAnswers} ELSE BufferedAnswers

\* The longest trade list a forced sell is still called on.
MaxTrades == MaxBars + 1

\* A call of _sellForce(today, num, PART_PORTFOLIO) on the current bar, for one
\* lot or one lot and a share.
SellForce ==
  /\ running
  /\ now > 0
  /\ Len(m_trade_list) < MaxTrades
  /\ \E num \in {MinTradeNumber, MinTradeNumber + 1} :
       \E q \in SellForceAnswers :
         Commit(_sellForce(Sys, today, num, "PORTFOLIO", q))
  /\ UNCHANGED <<m_params, plugins, total, running, now, today>>
  /\ UNCHANGED <<tvars, twin>>

\* A call of reset(true, true) while run() is not in its loop; m_kdata is
\* emptied, so a later run() starts from the first bar.
Reset ==
  /\ ~running \/ now = total
  /\ Commit(reset(Sys))
  /\ running' = FALSE
  /\ now' = 0
  /\ today' = NullKRecord
  /\ UNCHANGED <<m_params, plugins, total>>
  /\ UNCHANGED <<tvars, twin>>

\* ------------------------------------------------------------------ clone
\* A clone() of a plugin that hands out the instance it was called on.
PluginShared(inst) == inst

\* m_tm->clone(): a new instance, a deep copy of the one it was called on.
PluginClone(inst) == <<inst, "clone">>

\* System::clone, lines 177-214: the members of the new System.
clone(s) ==
  [tm |-> s.tm, buyRequest |-> s.buyRequest, sellRequest |-> s.sellRequest,
   sellShortRequest |-> s.sellShortRequest, buyShortRequest |-> s.buyShortRequest,
   trade_list |-> s.trade_list, lastTakeProfit |-> s.lastTakeProfit,
   lastShortTakeProfit |-> s.lastShortTakeProfit,
   pre_ev_valid |-> s.pre_ev_valid, pre_cn_valid |-> s.pre_cn_valid,
   buy_days |-> s.buy_days, sell_short_days |-> s.sell_short_days,
   ret |-> NullTradeRecord]

\* A call of clone(); the new System has the parameters, the stock and the
\* series of the original, and has not been fed a bar itself.
Clone ==
  /\ ~twin.made
  /\ twin' = [made |-> TRUE, m_tm |-> PluginClone("m_tm"), s |-> clone(Sys),
              now |-> 0]
  /\ UNCHANGED <<svars, tvars>>

\* The members of the clone; its TradeManager is in the state of the instance
\* it points to.
TwinSys == [twin.s EXCEPT !.tm = IF twin.m_tm = "m_tm" THEN tm ELSE @]

\* A handler of the clone has run: its members, and the TradeManager it
\* points to.
TwinCommit(s) ==
  /\ tm' = IF twin.m_tm = "m_tm" THEN s.tm ELSE tm
  /\ UNCHANGED <<m_params, plugins, total, running, now, today,
                 m_buyRequest, m_sellRequest, m_sellShortRequest,
                 m_buyShortRequest, m_trade_list, m_lastTakeProfit,
                 m_lastShortTakeProfit, m_pre_ev_valid, m_pre_cn_valid,
                 m_buy_days, m_sell_short_days>>
  /\ UNCHANGED tvars

\* runMoment on the clone, for the bars of the series in their order.
TwinRunMoment ==
  /\ twin.made
  /\ twin.now < total
  /\ \E kr \in BarsAt(twin.now + 1) :
       \E a \in RunMomentAnswers(TwinSys, kr) :
         LET s == runMoment(TwinSys, kr, a)
         IN  /\ twin' = [twin EXCEPT !.s = s, !.now = @ + 1]
             /\ TwinCommit(s)

\* reset(true, true) on the clone.
TwinReset ==
  /\ twin.made
  /\ LET s == reset(TwinSys)
     IN  /\ twin' = [twin EXCEPT !.s = s, !.now = 0]
         /\ TwinCommit(s)

AllPlugins == {"tm", "mm", "sg", "ev", "cn", "st", "tp", "pg", "sp"}

\* System::System: the state after construction, for a choice of parameters,
\* plugins and series length.
SystemConstructed(params, plugs, n) ==
  /\ m_params = params
  /\ plugins = plugs
  /\ total = n
  /\ running = FALSE
  /\ now = 0
  /\ today = NullKRecord
  /\ tm = InitTM
  /\ m_buyRequest = ClearedRequest
  /\ m_sellRequest = ClearedRequest
  /\ m_sellShortRequest = ClearedRequest
  /\ m_buyShortRequest = ClearedRequest
  /\ m_trade_list = <<>>
  /\ m_lastTakeProfit = 0
  /\ m_lastShortTakeProfit = 0
  /\ m_pre_ev_valid = TRUE
  /\ m_pre_cn_valid = TRUE
  /\ m_buy_days = 0
  /\ m_sell_short_days = 0

\* The state after construction: the System, not cloned, and a TimerManager.
Constructed(params, plugs, n) ==
  /\ SystemConstructed(params, plugs, n)
  /\ TimerManagerConstructed
  /\ twin = NoTwin

\* run() on a series of MaxBars bars with every plugin but Slippage set, for
\* each setting of delay and delay_use_current_price, and with trading on
\* bars without a range allowed or not (allowed: at the current prices).
Init ==
  \E dl \in BOOLEAN, ucp \in BOOLEAN, flat \in BOOLEAN :
    /\ flat => ucp
    /\ Constructed([initParam EXCEPT !.delay = dl, !.delay_use_current_price = ucp,
                                     !.can_trade_when_high_eq_low = flat],
                   AllPlugins \ {"sp"}, MaxBars)

Next == Run \/ RunMoment

Spec == Init /\ [][Next]_vars

\* The same on a series one bar longer: an entry decided on the first bar and
\* executed on the second, its exit decided there and executed on the third.
DeepBars == MaxBars + 1

InitDeep ==
  \E dl \in BOOLEAN, ucp \in BOOLEAN :
    Constructed([initParam EXCEPT !.delay = dl, !.delay_use_current_price = ucp],
                AllPlugins \ {"sp"}, DeepBars)

SpecDeep == InitDeep /\ [][Next]_vars

\* The environment: the three required plugins and an Environment, delayed or
\* not, on a series long enough for an entry, an exit that fails and a bar
\* after it.
InitEnv ==
  \E dl \in BOOLEAN :
    Constructed([initParam EXCEPT !.delay = dl], {"tm", "mm", "sg", "ev"}, DeepBars)

SpecEnv == InitEnv /\ [][Next]_vars

\* Opening a position on the environment or the condition turning valid: both
\* plugins set, each parameter on or off, delayed or not.
InitOpen ==
  \E dl \in BOOLEAN, evo \in BOOLEAN, cno \in BOOLEAN :
    Constructed([initParam EXCEPT !.delay = dl, !.ev_open_position = evo,
                                  !.cn_open_position = cno],
                {"tm", "mm", "sg", "ev", "cn"}, MaxBars)

SpecOpen == InitOpen /\ [][Next]_vars

\* The trailing take-profit with tp_monotonic off: a TakeProfit plugin, and a
\* ProfitGoal so that the goal is not met on every bar.
InitTp ==
  \E dl \in BOOLEAN :
    Constructed([initParam EXCEPT !.delay = dl, !.tp_monotonic = FALSE],
                {"tm", "mm", "sg", "tp", "pg"}, MaxBars)

SpecTp == InitTp /\ [][Next]_vars

\* A long series for the delayed orders that wait over degenerate bars: the
\* defaults (delay, max_delay_count 3, no trade on a bar without a range)
\* with the three mandatory plugins only.
LongBars == MaxBars + 3

InitLong == Constructed(initParam, {"tm", "mm", "sg"}, LongBars)

SpecLong == InitLong /\ [][Next]_vars

\* ignore_sell_sg set, immediate and delayed.
InitIgnoreSellSg ==
  \E dl \in BOOLEAN :
    Constructed([initParam EXCEPT !.delay = dl, !.ignore_sell_sg = TRUE],
                {"tm", "mm", "sg", "st"}, MaxBars)

SpecIgnoreSellSg == InitIgnoreSellSg /\ [][Next]_vars

\* The short side: support_borrow_stock set, and _sellShort called on the
\* bars of the run.
InitShort ==
  \E dl \in BOOLEAN, ucp \in BOOLEAN :
    Constructed([initParam EXCEPT !.delay = dl, !.delay_use_current_price = ucp,
                                  !.support_borrow_stock = TRUE],
                {"tm", "mm", "sg", "st"}, MaxBars)

NextShort == Run \/ RunMoment \/ SellShort

SpecShort == InitShort /\ [][NextShort]_vars

\* The short side while _buyShort is called on the bars of the run.
NextCover == Run \/ RunMoment \/ BuyShort

SpecCover == InitShort /\ [][NextCover]_vars

\* run() with the three required plugins, delayed or not, while a Portfolio
\* orders forced sells between the bars.
InitForce ==
  \E dl \in BOOLEAN :
    Constructed([initParam EXCEPT !.delay = dl], {"tm", "mm", "sg"}, MaxBars)

NextForce == Run \/ RunMoment \/ SellForce

SpecForce == InitForce /\ [][NextForce]_vars

\* The same with a TakeProfit plugin, which gives the tracker of the immediate
\* mode its values.
InitForceTp ==
  \E dl \in BOOLEAN :
    Constructed([initParam EXCEPT !.delay = dl], {"tm", "mm", "sg", "tp"}, MaxBars)

SpecForceTp == InitForceTp /\ [][NextForce]_vars

\* run() on a System that has its three required plugins, or lacks one of them.
InitMissing ==
  \E missing \in SUBSET {"tm", "mm", "sg"} :
    /\ Cardinality(missing) <= 1
    /\ Constructed(initParam, {"tm", "mm", "sg", "ev", "cn"} \ missing, MaxBars)

SpecMissing == InitMissing /\ [][Next]_vars

\* run() and reset() in turn on a System with the three required plugins and
\* ev_open_position set, delayed or not.
InitReset ==
  \E dl \in BOOLEAN :
    Constructed([initParam EXCEPT !.delay = dl, !.ev_open_position = TRUE],
                {"tm", "mm", "sg"}, MaxBars)

NextReset == Run \/ RunMoment \/ Reset

SpecReset == InitReset /\ [][NextReset]_vars

\* The series the two Systems of SpecClone are fed, each from its first bar.
CloneBars == MaxBars - 1

\* A System is run, cloned at some moment, and the clone is fed the series
\* (its bars submit requests under delay and trade without) and reset while
\* the original goes on.
InitClone ==
  \E dl \in BOOLEAN :
    Constructed([initParam EXCEPT !.delay = dl], {"tm", "mm", "sg"}, CloneBars)

NextClone == Run \/ RunMoment \/ Clone \/ TwinRunMoment \/ TwinReset

SpecClone == InitClone /\ [][NextClone]_vars

\* ------------------------------------------------------------ TimerManager
\* std::numeric_limits<int>::max(), scaled: ids run over 0..max_int, and a
\* repeat_num of max_int repeats for ever.
max_int == 3

\* TimeDelta(1): one day, in ticks.  Times of day run over 0..DayLen-1.
DayLen == 4

\* The last instant the clock reaches.
MaxClock == 3

\* Datetime::min(), Datetime::max() and the null Datetime.
Datetime_min == 0
Datetime_max == 1000 * DayLen
Datetime_null == 0 - 1

\* TimeDelta(0, 23, 59, 59, 999, 999): the last time of day.
LastTimeOfDay == DayLen - 1

\* Datetime::startOfDay
startOfDay(d) == d - (d % DayLen)

\* class Timer
Timer(start_date, end_date, start_time, end_time, repeat_num, duration, func) ==
  [start_date |-> start_date, end_date |-> end_date, start_time |-> start_time,
   end_time |-> end_time, repeat_num |-> repeat_num, duration |-> duration,
   func |-> func]

\* struct IntervalS
IntervalS(time_point, timer_id) == [time_point |-> time_point, timer_id |-> timer_id]

\* m_timers[id] = t
Insert(timers, id, t) ==
  [i \in (DOMAIN timers) \cup {id} |-> IF i = id THEN t ELSE timers[i]]

\* removeTimer for each id of ids
Erase(timers, ids) == [i \in (DOMAIN timers) \ ids |-> timers[i]]

\* m_queue.top(): an entry with the least time point (any of them on a tie).
Tops(q) ==
  {s \in BagToSet(q) : \A o \in BagToSet(q) : s.time_point <= o.time_point}

\* The callbacks submitted for func, in the order of their submission.
TasksOf(func) == SelectSeq(m_tg.tasks, LAMBDA k : k.func = func)

\* ------------------------------------------------------------ id allocation
\* getNewTimerId, the step to the next candidate.
NextId(cur) == IF cur >= max_int THEN 0 ELSE cur + 1

\* A probe that takes the candidate as it is.
ProbeNone(ids, cur) == cur

\* getNewTimerId, its loop: the first id from cur on that is not in the map.
RECURSIVE Probe(_, _)
Probe(ids, cur) == IF cur \in ids THEN Probe(ids, NextId(cur)) ELSE cur

\* getNewTimerId: the id returned (-1: the map is full) and m_current_timer_id
\* after the call.
getNewTimerId(ids, cur) ==
  IF Cardinality(ids) >= max_int
    THEN [id |-> 0 - 1, current |-> cur]
    ELSE LET c == Probe(ids, NextId(cur)) IN [id |-> c, current |-> c]

\* ------------------------------------------------------------ the instants
\* start(): a timer that has nothing left to run.
Invalid(timer, nw) ==
  \/ timer.repeat_num <= 0
  \/ timer.end_date # Datetime_max /\ timer.end_date + timer.end_time <= nw

\* start(): the first instant of a timer, moved into its daily window.
FirstPoint(timer, nw) ==
  LET p == nw + timer.duration
      point_date == startOfDay(p)
      point == p - point_date
      gap == point - timer.start_time
  IN  IF timer.start_time = timer.end_time THEN p
      ELSE IF point < timer.start_time THEN point_date + timer.start_time
      ELSE IF point > timer.end_time
        THEN point_date + timer.start_time + DayLen
      ELSE IF gap % timer.duration # 0
        THEN point_date + timer.start_time
               + timer.duration * ((gap \div timer.duration) + 1)
      ELSE p

\* A roll that stays on the day of nw.
NextPointSameDay(timer, time_point, nw) ==
  LET p == time_point + timer.duration
      day == startOfDay(nw)
  IN  IF timer.start_time # timer.end_time /\ p > day + timer.end_time
        THEN day + timer.start_time
        ELSE p

\* detectThread: the instant after time_point, moved to the next day's
\* start_time when it passes the window of the day of nw.
NextPoint(timer, time_point, nw) ==
  LET p == time_point + timer.duration
      day == startOfDay(nw)
  IN  IF timer.start_time # timer.end_time /\ p > day + timer.end_time
        THEN day + timer.start_time + DayLen
        ELSE p

\* A count that never goes down.
CountKept(repeat_num) == repeat_num

\* detectThread, lines 229-231: the repeats left after a callback.
CountDown(repeat_num) ==
  IF repeat_num # max_int THEN repeat_num - 1 ELSE repeat_num

\* detectThread: the timer is over once time_point + duration is computed.
PastEnd(timer, time_point) ==
  /\ timer.end_date # Datetime_max
  /\ time_point + timer.duration > timer.end_date + timer.end_time

\* ------------------------------------------------------------ the threads
\* A detectThread thread: where it is, the now it read, and until when its
\* wait_for lasts.
Thread(pc, nw, until) == [pc |-> pc, now |-> nw, until |-> until]

\* m_cond.notify_all(): every waiting thread wakes, re-takes the lock and
\* goes back to the loop's test.
notify_all(threads) ==
  [i \in DOMAIN threads |->
     IF threads[i].pc \in {"wait", "wait_for"} THEN Thread("check", 0, 0)
     ELSE threads[i]]

\* The most detectThread threads started.
MaxThreads == 2

\* The most timers accepted: short of max_int, where the map is full.
MaxTimers == max_int - 1

\* ------------------------------------------------------------ time
\* Time passes.
Tick ==
  /\ clock < MaxClock
  /\ clock' = clock + 1
  /\ UNCHANGED <<m_timers, m_queue, m_stop, m_current_timer_id, m_tg, detect,
                 call, registered>>
  /\ UNCHANGED <<svars, twin>>

\* ------------------------------------------------------------ start()
\* A start() that does not look at m_stop.
StartAlways(stop) == TRUE

\* start(), line 43: the test that lets start() act.
StartGuard(stop) == stop

\* start(), lines 43-47: if stopped, clear m_stop and make the pool; if not,
\* go to the end of the function.
Start ==
  /\ call.pc = "idle"
  /\ Len(detect) < MaxThreads
  /\ IF StartGuard(m_stop)
       THEN /\ m_stop' = FALSE
            /\ m_tg' = [m_tg EXCEPT !.made = TRUE]
            /\ call' = [pc |-> "start_rebuild", raised |-> FALSE]
       ELSE /\ call' = [pc |-> "start_return", raised |-> FALSE]
            /\ UNCHANGED <<m_stop, m_tg>>
  /\ UNCHANGED <<clock, m_timers, m_queue, m_current_timer_id, detect, registered>>
  /\ UNCHANGED <<svars, twin>>

\* start(), lines 53-95, under the lock: push an entry for every valid timer
\* and remove the others.
StartRebuild ==
  /\ call.pc = "start_rebuild"
  /\ LET invalid_timers == {id \in DOMAIN m_timers : Invalid(m_timers[id], clock)}
         pushed == {IntervalS(FirstPoint(m_timers[id], clock), id) :
                      id \in (DOMAIN m_timers) \ invalid_timers}
     IN  /\ m_queue' = m_queue (+) SetToBag(pushed)
         /\ m_timers' = Erase(m_timers, invalid_timers)
  /\ call' = [call EXCEPT !.pc = "start_notify"]
  /\ UNCHANGED <<clock, m_stop, m_current_timer_id, m_tg, detect, registered>>
  /\ UNCHANGED <<svars, twin>>

\* start(), lines 96-98: notify_all, then the new detectThread thread.
StartNotify ==
  /\ call.pc = "start_notify"
  /\ detect' = Append(notify_all(detect), Thread("check", 0, 0))
  /\ call' = Idle(FALSE)
  /\ UNCHANGED <<clock, m_timers, m_queue, m_stop, m_current_timer_id, m_tg,
                 registered>>
  /\ UNCHANGED <<svars, twin>>

\* start(), lines 99-100: the scheduler was running already; start() returns.
StartReturn ==
  /\ call.pc = "start_return"
  /\ call' = Idle(FALSE)
  /\ UNCHANGED <<clock, m_timers, m_queue, m_stop, m_current_timer_id, m_tg,
                 detect, registered>>
  /\ UNCHANGED <<svars, twin>>

\* ------------------------------------------------------------ stop()
\* A swap that leaves the queue as it is.
Kept(q) == q

\* The queue stop() leaves.
Swapped(q) == EmptyBag

\* stop(), lines 104-105: if running, set m_stop.
Stop ==
  /\ call.pc = "idle"
  /\ IF ~m_stop
       THEN /\ m_stop' = TRUE
            /\ call' = [pc |-> "stop_swap", raised |-> FALSE]
       ELSE /\ call' = Idle(FALSE)
            /\ UNCHANGED m_stop
  /\ UNCHANGED <<clock, m_timers, m_queue, m_current_timer_id, m_tg, detect,
                 registered>>
  /\ UNCHANGED <<svars, twin>>

\* stop(), lines 106-109, under the lock: the queue is swapped for an empty one.
StopSwap ==
  /\ call.pc = "stop_swap"
  /\ m_queue' = Swapped(m_queue)
  /\ call' = [call EXCEPT !.pc = "stop_notify"]
  /\ UNCHANGED <<clock, m_timers, m_stop, m_current_timer_id, m_tg, detect,
                 registered>>
  /\ UNCHANGED <<svars, twin>>

\* stop(), line 110: notify_all.
StopNotify ==
  /\ call.pc = "stop_notify"
  /\ detect' = notify_all(detect)
  /\ call' = Idle(FALSE)
  /\ UNCHANGED <<clock, m_timers, m_queue, m_stop, m_current_timer_id, m_tg,
                 registered>>
  /\ UNCHANGED <<svars, twin>>

\* ------------------------------------------------------------ addFunc
\* The checks without the one of end_time against start_time.
ValidUnordered(start_date, end_date, start_time, end_time, repeat_num, duration) ==
  /\ start_date # Datetime_null
  /\ end_date # Datetime_null
  /\ end_date > start_date
  /\ start_time > 0 /\ start_time <= LastTimeOfDay
  /\ end_time > 0 /\ end_time <= LastTimeOfDay
  /\ repeat_num > 0
  /\ duration > 0

\* addFunc, lines 130-141: the checks that let the call through.
Valid(start_date, end_date, start_time, end_time, repeat_num, duration) ==
  /\ start_date # Datetime_null
  /\ end_date # Datetime_null
  /\ end_date > start_date
  /\ start_time > 0 /\ start_time <= LastTimeOfDay
  /\ end_time > 0 /\ end_time <= LastTimeOfDay
  /\ end_time >= start_time
  /\ repeat_num > 0
  /\ duration > 0

\* _addFunc, lines 307-316: the Timer is built and its first instant is
\* now + duration; the caller goes on to the lock.
_addFunc(start_date, end_date, start_time, end_time, repeat_num, duration) ==
  /\ call' = [pc |-> "add_insert", raised |-> FALSE,
              t |-> Timer(start_date, end_date, start_time, end_time, repeat_num,
                          duration, Len(registered) + 1),
              time_point |-> clock + duration]
  /\ UNCHANGED <<clock, m_timers, m_queue, m_stop, m_current_timer_id, m_tg,
                 detect, registered>>
  /\ UNCHANGED <<svars, twin>>

\* The call throws and nothing else happens.
Throw ==
  /\ call' = Idle(TRUE)
  /\ UNCHANGED <<clock, m_timers, m_queue, m_stop, m_current_timer_id, m_tg,
                 detect, registered>>
  /\ UNCHANGED <<svars, twin>>

\* addFunc with the arguments a.
addFunc(a) ==
  IF Valid(a.start_date, a.end_date, a.start_time, a.end_time, a.repeat_num,
           a.duration)
    THEN _addFunc(a.start_date, a.end_date, a.start_time, a.end_time,
                  a.repeat_num, a.duration)
    ELSE Throw

\* addDurationFunc
addDurationFunc(repeat_num, duration) ==
  IF repeat_num > 0 /\ duration > 0
    THEN _addFunc(Datetime_min, Datetime_max, 0, 0, repeat_num, duration)
    ELSE Throw

\* addDelayFunc
addDelayFunc(delay) ==
  IF delay > 0
    THEN _addFunc(Datetime_min, Datetime_max, 0, 0, 1, delay)
    ELSE Throw

\* addFuncAtPoint, line 190: TimeDelta(0, 0, 0, 0, 100), the lead of 100 ms, in
\* ticks.
Lead == 1

\* addFuncAtPoint: a one-shot timer whose window opens at time_point - Lead.
addFuncAtPoint(time_point) ==
  IF time_point # Datetime_null
    THEN LET run_point == time_point - Lead
             date == startOfDay(run_point)
             time == run_point - date
         IN  _addFunc(date, Datetime_max, time, LastTimeOfDay, 1, Lead)
    ELSE Throw

\* The repeat counts and the durations the caller asks for.
Repeats == {1, 2}
Durations == {1, 2}

\* Windowed timers: every day from DayLen/4 to DayLen/2 o'clock.
WindowArgs ==
  {[start_date |-> Datetime_min, end_date |-> Datetime_max, start_time |-> 1,
    end_time |-> 2, repeat_num |-> k, duration |-> d] :
     k \in Repeats, d \in Durations}

\* A call of addFunc for a windowed timer.
AddFunc ==
  /\ call.pc = "idle"
  /\ Len(registered) < MaxTimers
  /\ \E a \in WindowArgs : addFunc(a)

\* Timers allowed from today or from tomorrow on, at any time of day but
\* midnight.
DatedArgs ==
  {[start_date |-> sd, end_date |-> Datetime_max, start_time |-> 1,
    end_time |-> LastTimeOfDay, repeat_num |-> 1, duration |-> d] :
     sd \in {Datetime_min, DayLen}, d \in Durations}

\* A call of addFunc for a timer with a start date.
AddDatedFunc ==
  /\ call.pc = "idle"
  /\ Len(registered) < MaxTimers
  /\ \E a \in DatedArgs : addFunc(a)

\* Arguments of every kind, the refused ones too: null and ordinary dates,
\* times of day from 0 to 24h, counts and durations from 0.
AnyArgs ==
  [start_date : {Datetime_null, Datetime_min, DayLen},
   end_date : {Datetime_null, Datetime_min, DayLen, Datetime_max},
   start_time : {0, 1, LastTimeOfDay, DayLen},
   end_time : {0, 1, LastTimeOfDay, DayLen},
   repeat_num : {0, 1},
   duration : {0, 1}]

\* A call of addFunc with any arguments.
AddAnyFunc ==
  /\ call.pc = "idle"
  /\ Len(registered) < MaxTimers
  /\ \E a \in AnyArgs : addFunc(a)

\* A call of addDurationFunc.
AddDurationFunc ==
  /\ call.pc = "idle"
  /\ Len(registered) < MaxTimers
  /\ \E k \in Repeats, d \in Durations : addDurationFunc(k, d)

\* The instants asked of addFuncAtPoint: the null Datetime, instants of the
\* first day, and one of the day after.
Points == {Datetime_null} \cup 1..MaxClock \cup {DayLen + 2}

\* A call of addFuncAtPoint.
AddFuncAtPoint ==
  /\ call.pc = "idle"
  /\ Len(registered) < MaxTimers
  /\ \E time_point \in Points : addFuncAtPoint(time_point)

\* The most timers accepted when one-shot timers come and go: enough for the
\* id counter to pass max_int and meet an id still in use.
MaxAdds == 2 * max_int

\* A call of addDelayFunc, for a delay of one tick.
AddDelayFunc ==
  /\ call.pc = "idle"
  /\ Len(registered) < MaxAdds
  /\ addDelayFunc(1)

\* _addFunc, lines 318-329, under the lock: allocate the id; throw if there is
\* none, else put the timer in the map and its first entry in the heap.
AddInsert ==
  /\ call.pc = "add_insert"
  /\ LET r == getNewTimerId(DOMAIN m_timers, m_current_timer_id)
     IN  IF r.id < 0
           THEN /\ call' = Idle(TRUE)
                /\ UNCHANGED <<m_timers, m_queue, m_current_timer_id, registered>>
           ELSE /\ m_current_timer_id' = r.current
                /\ m_timers' = Insert(m_timers, r.id, call.t)
                /\ m_queue' = m_queue (+) SetToBag({IntervalS(call.time_point, r.id)})
                /\ registered' = Append(registered, call.t)
                /\ call' = [pc |-> "add_notify", raised |-> FALSE]
  /\ UNCHANGED <<clock, m_stop, m_tg, detect>>
  /\ UNCHANGED <<svars, twin>>

\* _addFunc, line 330: notify_all.
AddNotify ==
  /\ call.pc = "add_notify"
  /\ detect' = notify_all(detect)
  /\ call' = Idle(FALSE)
  /\ UNCHANGED <<clock, m_timers, m_queue, m_stop, m_current_timer_id, m_tg,
                 registered>>
  /\ UNCHANGED <<svars, twin>>

\* ------------------------------------------------------------ detectThread
\* detectThread, lines 205-206: leave the loop if m_stop, else read the clock.
DetectTest(i) ==
  /\ detect[i].pc = "check"
  /\ detect' = [detect EXCEPT ![i] = IF m_stop THEN Thread("done", 0, 0)
                                     ELSE Thread("lock", clock, 0)]
  /\ UNCHANGED <<clock, m_timers, m_queue, m_stop, m_current_timer_id, m_tg,
                 call, registered>>
  /\ UNCHANGED <<svars, twin>>

\* detectThread, lines 207-211: under the lock the heap is empty: wait.
DetectWait(i) ==
  /\ detect[i].pc = "lock"
  /\ m_queue = EmptyBag
  /\ detect' = [detect EXCEPT ![i] = Thread("wait", 0, 0)]
  /\ UNCHANGED <<clock, m_timers, m_queue, m_stop, m_current_timer_id, m_tg,
                 call, registered>>
  /\ UNCHANGED <<svars, twin>>

\* detectThread, lines 213-218: the top entry is later than the now that was
\* read: wait_for the difference.
DetectWaitFor(i) ==
  /\ detect[i].pc = "lock"
  /\ \E s \in Tops(m_queue) :
       /\ s.time_point - detect[i].now > 0
       /\ detect' = [detect EXCEPT ![i] =
                       Thread("wait_for", 0, clock + (s.time_point - detect[i].now))]
  /\ UNCHANGED <<clock, m_timers, m_queue, m_stop, m_current_timer_id, m_tg,
                 call, registered>>
  /\ UNCHANGED <<svars, twin>>

\* detectThread, lines 220-224: the top entry is due and its timer is gone.
DetectDrop(i) ==
  /\ detect[i].pc = "lock"
  /\ \E s \in Tops(m_queue) :
       /\ s.time_point - detect[i].now <= 0
       /\ s.timer_id \notin DOMAIN m_timers
       /\ m_queue' = m_queue (-) SetToBag({s})
  /\ detect' = [detect EXCEPT ![i] = Thread("check", 0, 0)]
  /\ UNCHANGED <<clock, m_timers, m_stop, m_current_timer_id, m_tg, call,
                 registered>>
  /\ UNCHANGED <<svars, twin>>

\* detectThread, lines 220-251: the top entry is due: submit the callback,
\* count the repeat down, and push the next entry or remove the timer.
DetectSubmit(i) ==
  /\ detect[i].pc = "lock"
  /\ \E s \in Tops(m_queue) :
       /\ s.time_point - detect[i].now <= 0
       /\ s.timer_id \in DOMAIN m_timers
       /\ LET timer == m_timers[s.timer_id]
              left == CountDown(timer.repeat_num)
              popped == m_queue (-) SetToBag({s})
          IN  /\ m_tg' = [m_tg EXCEPT !.tasks =
                            Append(@, [func |-> timer.func, point |-> s.time_point])]
              /\ IF left <= 0 \/ PastEnd(timer, s.time_point)
                   THEN /\ m_timers' = Erase(m_timers, {s.timer_id})
                        /\ m_queue' = popped
                   ELSE /\ m_timers' = [m_timers EXCEPT ![s.timer_id].repeat_num = left]
                        /\ m_queue' = popped (+) SetToBag(
                             {IntervalS(NextPoint(timer, s.time_point, detect[i].now),
                                        s.timer_id)})
  /\ detect' = [detect EXCEPT ![i] = Thread("check", 0, 0)]
  /\ UNCHANGED <<clock, m_stop, m_current_timer_id, call, registered>>
  /\ UNCHANGED <<svars, twin>>

\* m_cond.wait_for: the time is up.  Past the clock's last instant time goes
\* on unseen, so there every timed wait ends.
DetectTimeout(i) ==
  /\ detect[i].pc = "wait_for"
  /\ clock >= detect[i].until \/ clock = MaxClock
  /\ detect' = [detect EXCEPT ![i] = Thread("check", 0, 0)]
  /\ UNCHANGED <<clock, m_timers, m_queue, m_stop, m_current_timer_id, m_tg,
                 call, registered>>
  /\ UNCHANGED <<svars, twin>>

\* m_cond.wait, m_cond.wait_for: a wake-up no one sent, which the standard
\* allows at any time.
DetectSpurious(i) ==
  /\ detect[i].pc \in {"wait", "wait_for"}
  /\ detect' = [detect EXCEPT ![i] = Thread("check", 0, 0)]
  /\ UNCHANGED <<clock, m_timers, m_queue, m_stop, m_current_timer_id, m_tg,
                 call, registered>>
  /\ UNCHANGED <<svars, twin>>

\* ------------------------------------------------------------ the scheduler
\* A TimerManager next to a System that is not run.
InitTimer == Constructed(initParam, {}, 0)

\* One step of the detectThread thread i.
detectThread(i) ==
  /\ i \in DOMAIN detect
  /\ \/ DetectTest(i)
     \/ DetectWait(i)
     \/ DetectWaitFor(i)
     \/ DetectDrop(i)
     \/ DetectSubmit(i)
     \/ DetectTimeout(i)

\* A step of one of the detectThread threads.
Detect ==
  \/ \E i \in DOMAIN detect : DetectTest(i)
  \/ \E i \in DOMAIN detect : DetectWait(i)
  \/ \E i \in DOMAIN detect : DetectWaitFor(i)
  \/ \E i \in DOMAIN detect : DetectDrop(i)
  \/ \E i \in DOMAIN detect : DetectSubmit(i)
  \/ \E i \in DOMAIN detect : DetectTimeout(i)

\* A wake-up of one of them that no one sent.
Spurious == \E i \in DOMAIN detect : DetectSpurious(i)

\* Timers without a window or an end are added, the scheduler is started and
\* stopped, the threads run, and time passes.
NextTimer ==
  \/ Tick
  \/ Start \/ StartRebuild \/ StartNotify \/ StartReturn
  \/ Stop \/ StopSwap \/ StopNotify
  \/ AddDurationFunc \/ AddInsert \/ AddNotify
  \/ Detect \/ Spurious

SpecTimer == InitTimer /\ [][NextTimer]_vars

\* Time passes, every thread gets its turn, and a call that began goes on.
Fairness ==
  /\ WF_vars(Tick)
  /\ \A i \in 1..MaxThreads : WF_vars(detectThread(i))
  /\ WF_vars(StartRebuild) /\ WF_vars(StartNotify) /\ WF_vars(StartReturn)
  /\ WF_vars(StopSwap) /\ WF_vars(StopNotify)
  /\ WF_vars(AddInsert) /\ WF_vars(AddNotify)

\* The scheduler is started and never stopped.
NextRun ==
  \/ Tick
  \/ Start \/ StartRebuild \/ StartNotify \/ StartReturn
  \/ AddDurationFunc \/ AddInsert \/ AddNotify
  \/ Detect \/ Spurious

SpecRun == InitTimer /\ [][NextRun]_vars /\ Fairness

\* The scheduler of SpecTimer under fair scheduling.
SpecTimerFair == InitTimer /\ [][NextTimer]_vars /\ Fairness

\* Calls of addFunc with any arguments, on a scheduler that is not started.
NextArgs == AddAnyFunc \/ AddInsert \/ AddNotify

SpecArgs == InitTimer /\ [][NextArgs]_vars

\* One-shot timers are added while the scheduler runs them off.
NextIds ==
  \/ Tick
  \/ Start \/ StartRebuild \/ StartNotify \/ StartReturn
  \/ AddDelayFunc \/ AddInsert \/ AddNotify
  \/ Detect \/ Spurious

SpecIds == InitTimer /\ [][NextIds]_vars

\* Timers with a daily window are added and the scheduler is started.
NextWindow ==
  \/ Tick
  \/ Start \/ StartRebuild \/ StartNotify \/ StartReturn
  \/ AddFunc \/ AddInsert \/ AddNotify
  \/ Detect \/ Spurious

SpecWindow == InitTimer /\ [][NextWindow]_vars

\* Tasks are asked for an instant and the scheduler is started.
NextAtPoint ==
  \/ Tick
  \/ Start \/ StartRebuild \/ StartNotify \/ StartReturn
  \/ AddFuncAtPoint \/ AddInsert \/ AddNotify
  \/ Detect \/ Spurious

SpecAtPoint == InitTimer /\ [][NextAtPoint]_vars

\* Timers with a start date are added and the scheduler is started.
NextDated ==
  \/ Tick
  \/ Start \/ StartRebuild \/ StartNotify \/ StartReturn
  \/ AddDatedFunc \/ AddInsert \/ AddNotify
  \/ Detect \/ Spurious

SpecDated == InitTimer /\ [][NextDated]_vars

\* Timers that end on the second day: allowed from the first day to the day
\* after it, until the first tick of that day.
EndedArgs ==
  {[start_date |-> Datetime_min, end_date |-> DayLen, start_time |-> 1,
    end_time |-> 1, repeat_num |-> k, duration |-> d] :
     k \in Repeats, d \in Durations}

\* A call of addFunc for a timer with an end date.
AddEndedFunc ==
  /\ call.pc = "idle"
  /\ Len(registered) < MaxTimers
  /\ \E a \in EndedArgs : addFunc(a)

\* A TimerManager made on the morning of the second day.
InitLate ==
  /\ SystemConstructed(initParam, {}, 0)
  /\ twin = NoTwin
  /\ clock = DayLen
  /\ m_timers = [i \in {} |-> 0]
  /\ m_queue = EmptyBag
  /\ m_stop = TRUE
  /\ m_current_timer_id = -1
  /\ m_tg = [made |-> FALSE, tasks |-> << >>]
  /\ detect = << >>
  /\ call = Idle(FALSE)
  /\ registered = << >>

\* Time passes on the second day.
TickLate ==
  /\ clock < DayLen + MaxClock
  /\ clock' = clock + 1
  /\ UNCHANGED <<m_timers, m_queue, m_stop, m_current_timer_id, m_tg, detect,
                 call, registered>>
  /\ UNCHANGED <<svars, twin>>

\* Timers with an end date are added around their end, and the scheduler is
\* started and stopped.
NextEnded ==
  \/ TickLate
  \/ Start \/ StartRebuild \/ StartNotify \/ StartReturn
  \/ Stop \/ StopSwap \/ StopNotify
  \/ AddEndedFunc \/ AddInsert \/ AddNotify
  \/ Detect \/ Spurious

SpecEnded == InitLate /\ [][NextEnded]_vars

\* ------------------------------------------------------------ ~TimerManager
\* ~TimerManager, line 37: stop(), lines 104-105: if running, set m_stop; if
\* not, stop() is over and the destructor goes on to the pool.
Destroy ==
  /\ call.pc = "idle"
  /\ IF ~m_stop
       THEN /\ m_stop' = TRUE
            /\ call' = [pc |-> "dtor_swap", raised |-> FALSE]
       ELSE /\ call' = [pc |-> "dtor_pool", raised |-> FALSE]
            /\ UNCHANGED m_stop
  /\ UNCHANGED <<clock, m_timers, m_queue, m_current_timer_id, m_tg, detect,
                 registered>>
  /\ UNCHANGED <<svars, twin>>

\* ~TimerManager, line 37: stop(), lines 106-109.
DestroySwap ==
  /\ call.pc = "dtor_swap"
  /\ m_queue' = Swapped(m_queue)
  /\ call' = [call EXCEPT !.pc = "dtor_notify"]
  /\ UNCHANGED <<clock, m_timers, m_stop, m_current_timer_id, m_tg, detect,
                 registered>>
  /\ UNCHANGED <<svars, twin>>

\* ~TimerManager, line 37: stop(), line 110.
DestroyNotify ==
  /\ call.pc = "dtor_notify"
  /\ detect' = notify_all(detect)
  /\ call' = [call EXCEPT !.pc = "dtor_pool"]
  /\ UNCHANGED <<clock, m_timers, m_queue, m_stop, m_current_timer_id, m_tg,
                 registered>>
  /\ UNCHANGED <<svars, twin>>

\* ~TimerManager, line 38: m_tg->stop().  Through a null m_tg the call is
\* undefined: the program crashes there, or goes on as if nothing was called.
DestroyPool ==
  /\ call.pc = "dtor_pool"
  /\ \E outcome \in IF m_tg.made THEN {"destroyed"} ELSE {"destroyed", "crashed"} :
       call' = [call EXCEPT !.pc = outcome]
  /\ UNCHANGED <<clock, m_timers, m_queue, m_stop, m_current_timer_id, m_tg,
                 detect, registered>>
  /\ UNCHANGED <<svars, twin>>

\* Timers are added, the scheduler is started or not, and the TimerManager is
\* destroyed at some moment.
NextDestroy ==
  \/ Tick
  \/ Start \/ StartRebuild \/ StartNotify \/ StartReturn
  \/ AddDurationFunc \/ AddInsert \/ AddNotify
  \/ Destroy \/ DestroySwap \/ DestroyNotify \/ DestroyPool
  \/ Detect \/ Spurious

SpecDestroy == InitTimer /\ [][NextDestroy]_vars

\* ------------------------------------------------------------ properties
\* The request _processRequest acts on: the first valid one in its order.
Pending ==
  IF m_buyRequest.valid THEN m_buyRequest
  ELSE IF m_sellRequest.valid THEN m_sellRequest
  ELSE IF m_sellShortRequest.valid THEN m_sellShortRequest
  ELSE IF m_buyShortRequest.valid THEN m_buyShortRequest
  ELSE ClearedRequest

Last(list) == list[Len(list)]

\* The step is a call of runMoment: the series moves on by one bar.
BarStep == now' = now + 1

\* The step appends exactly one record to m_trade_list.
AppendsOne ==
  /\ Len(m_trade_list') = Len(m_trade_list) + 1
  /\ SubSeq(m_trade_list', 1, Len(m_trade_list)) = m_trade_list

\* C1: a bar passed to runMoment appends at most one trade to m_trade_list,
\* the delayed-order step and all the decision phases counted together; so
\* an entry and an exit are never both executed on one bar.
C1_OneTradePerBar ==
  [][BarStep => (m_trade_list' = m_trade_list \/ AppendsOne)]_vars

\* A delayed entry is executed on bar 2 and an exit is decided on the same
\* bar: the bar has one trade, the exit waits.
C1_Witness ==
  /\ getParam("delay")
  /\ now = 2
  /\ Len(m_trade_list) = 1
  /\ m_trade_list[1].business = "BUY"
  /\ m_trade_list[1].datetime = now
  /\ m_sellRequest.valid
  /\ m_sellRequest.datetime = now

\* C2: a trade made by executing a delayed order is dated at most
\* max_delay_count bars after the bar the order was decided on, degenerate
\* bars included.
C2_DelayBound ==
  [][(BarStep /\ getParam("delay") /\ m_trade_list' # m_trade_list) =>
       today'.datetime - Pending.datetime <= getParam("max_delay_count")]_vars

\* C3: with delay set, a bar's decision appends no trade on that bar: a trade
\* appended on a bar executes the request pending from an earlier bar, at the
\* bar's open and with the bar's datetime; and a request does not outlive the
\* next bar that is processed (a request left by such a bar is that bar's own).
C3_DelayedExecution ==
  [][(BarStep /\ getParam("delay")) =>
       /\ (m_trade_list' # m_trade_list) =>
            /\ AppendsOne
            /\ Pending.valid
            /\ Pending.datetime < today'.datetime
            /\ Last(m_trade_list').business = Pending.business
            /\ Last(m_trade_list').from = Pending.from
            /\ Last(m_trade_list').planPrice = today'.openPrice
            /\ Last(m_trade_list').datetime = today'.datetime
       /\ (~DegenerateGate(today')) =>
            \A req \in {m_buyRequest', m_sellRequest'} :
              req.valid => (req.datetime = today'.datetime /\ req.count = 1)]_vars

\* The entry decided on bar 1 has been executed on bar 2 at its open, and
\* bar 2 has decided nothing.
C3_Witness ==
  /\ getParam("delay")
  /\ now = 2
  /\ Len(m_trade_list) = 1
  /\ m_trade_list[1].business = "BUY"
  /\ m_trade_list[1].datetime = today.datetime
  /\ m_trade_list[1].planPrice = today.openPrice
  /\ ~Pending.valid

\* C4: a sell from STOPLOSS sells the whole holding: the bar that executes it
\* leaves nothing held.
C4_StoplossSellsAll ==
  (/\ Len(m_trade_list) > 0
   /\ Last(m_trade_list).business = "SELL"
   /\ Last(m_trade_list).from = "STOPLOSS"
   /\ Last(m_trade_list).datetime = now)
    => tm.number = 0

\* C5: a degenerate bar met with a request pending makes no trade, keeps the
\* request valid and adds one to its count.
C5_DegenerateBarKeepsRequest ==
  [][(BarStep /\ DegenerateGate(today') /\ Pending.valid) =>
       /\ m_trade_list' = m_trade_list
       /\ Pending'.valid
       /\ Pending'.count = Pending.count + 1]_vars

\* C6: with max_delay_count 3 and no trade on degenerate bars, a buy request
\* is gone once four degenerate bars have followed its decision.  (A valid buy
\* request dated d has seen only degenerate bars since d.)
C6_ClearedAfterRetries ==
  (getParam("max_delay_count") = 3 /\ ~getParam("can_trade_when_high_eq_low"))
    => ~(m_buyRequest.valid /\ now - m_buyRequest.datetime >= 4)

\* The step is a bar on which a buy request with its buffered price waits,
\* and the bar's open is not above the buffered stoploss.
BufferedBuyAtStoploss ==
  /\ BarStep
  /\ getParam("delay")
  /\ ~getParam("delay_use_current_price")
  /\ m_buyRequest.valid
  /\ ~DegenerateGate(today')
  /\ today'.openPrice <= m_buyRequest.stoploss

\* C7: no buy reaches the TradeManager with planPrice <= stoploss, and none
\* is recorded; a delayed buy that fails the test is dropped: its bar sends
\* no order, records no trade and leaves no buy request of an earlier bar.
C7_BuyAboveStoploss ==
  /\ [](/\ tm.last.op = "buy" => tm.last.planPrice > tm.last.stoploss
        /\ \A i \in 1..Len(m_trade_list) :
             m_trade_list[i].business = "BUY" =>
               m_trade_list[i].planPrice > m_trade_list[i].stoploss)
  /\ [][BufferedBuyAtStoploss =>
          /\ tm' = tm
          /\ m_trade_list' = m_trade_list
          /\ (m_buyRequest'.valid => m_buyRequest'.datetime = today'.datetime)]_vars

\* A buy has reached the TradeManager one price level above its stoploss and
\* has been recorded.
C7_Witness ==
  /\ tm.last.op = "buy"
  /\ tm.last.planPrice = tm.last.stoploss + 1
  /\ Len(m_trade_list) = 1
  /\ m_trade_list[1].business = "BUY"
  /\ m_trade_list[1].datetime = tm.last.datetime

\* The step sends the order of a short entry: a call of _sellShort, or a bar
\* whose delayed order is the sell-short request.
ShortEntryStep ==
  /\ \/ now' = now /\ now > 0
     \/ BarStep /\ Pending.business = "SELL_SHORT"
  /\ tm'.last # tm.last

\* C8: no short entry reaches the TradeManager with planPrice >= stoploss.
C8_SellShortBelowStoploss ==
  [][ShortEntryStep => tm'.last.planPrice < tm'.last.stoploss]_vars

\* C9: a buy sent to the TradeManager has a number that is a multiple of
\* minTradeNumber within [minTradeNumber, maxTradeNumber].
C9_BuyNumberIsLots ==
  tm.last.op = "buy" =>
    /\ tm.last.number % MinTradeNumber = 0
    /\ tm.last.number >= MinTradeNumber
    /\ tm.last.number <= MaxTradeNumber

\* C10: with ignore_sell_sg set there is no exit from SIGNAL: no sell request,
\* no sell order and no recorded sell has that origin.
C10_NoSignalExit ==
  getParam("ignore_sell_sg") =>
    /\ ~(m_sellRequest.valid /\ m_sellRequest.from = "SIGNAL")
    /\ ~(tm.last.op = "sell" /\ tm.last.from = "SIGNAL")
    /\ \A i \in 1..Len(m_trade_list) :
         ~(m_trade_list[i].business = "SELL" /\ m_trade_list[i].from = "SIGNAL")

\* C11: an order the TradeManager rejects appends nothing to m_trade_list, on
\* every path, the forced sell included: no record of the list is the null
\* record a rejection returns.
C11_RejectedAppendsNothing ==
  \A i \in 1..Len(m_trade_list) : ~isNull(m_trade_list[i])

\* C12: with tp_monotonic set, m_lastTakeProfit does not decrease while a long
\* position stays open, additional buys and partial sells included.
C12_TakeProfitMonotonic ==
  [][(getParam("tp_monotonic") /\ tm.number > 0 /\ tm'.number > 0)
       => m_lastTakeProfit' >= m_lastTakeProfit]_vars

\* The callbacks submitted so far for the timer registered as func.
Submitted(func) == Len(TasksOf(func))

\* The timer registered as func is in the map, the scheduler runs, and one of
\* the timer's heap entries leaves room for its remaining repeats before the
\* clock's last instant.
Scheduled(func) ==
  /\ ~m_stop
  /\ \E id \in DOMAIN m_timers :
       /\ m_timers[id].func = func
       /\ \E s \in BagToSet(m_queue) :
            /\ s.timer_id = id
            /\ s.time_point + (m_timers[id].repeat_num - 1) * m_timers[id].duration
                 <= MaxClock

\* C13: a timer with repeat_num = k and no date or window limit gets exactly k
\* callbacks submitted while the scheduler stays running: never more than k,
\* and k in the end, whether it was added before start() or after.
C13_ExactlyKCallbacks ==
  /\ [](\A f \in 1..Len(registered) : Submitted(f) <= registered[f].repeat_num)
  /\ \A f \in 1..MaxTimers :
       (f <= Len(registered) /\ Scheduled(f))
         ~> (f <= Len(registered) /\ Submitted(f) = registered[f].repeat_num)

\* A timer asked for twice has run twice and is gone.
C13_Witness ==
  \E f \in 1..Len(registered) :
    /\ registered[f].repeat_num = 2
    /\ Submitted(f) = 2
    /\ \A id \in DOMAIN m_timers : m_timers[id].func # f

\* C14: consecutive callbacks of one timer are scheduled at instants at least
\* its duration apart, also for a timer registered before start().
C14_DurationApart ==
  \A f \in 1..Len(registered) :
    \A j \in 1..(Submitted(f) - 1) :
      TasksOf(f)[j + 1].point - TasksOf(f)[j].point >= registered[f].duration

\* C15: a timer with a daily window (start_time # end_time) is dispatched only
\* at instants whose time of day lies within [start_time, end_time], whenever
\* addFunc and start() were called.
C15_WithinWindow ==
  \A f \in 1..Len(registered) :
    registered[f].start_time # registered[f].end_time =>
      \A j \in 1..Submitted(f) :
        LET point == TasksOf(f)[j].point - startOfDay(TasksOf(f)[j].point)
        IN  registered[f].start_time <= point /\ point <= registered[f].end_time

\* stop() has returned and start() has not been called since.
Stopped == m_stop /\ call.pc \notin {"stop_swap", "stop_notify"}

EntriesOf(id) ==
  BagCardinality([s \in {e \in BagToSet(m_queue) : e.timer_id = id} |-> m_queue[s]])

\* C17: the heap holds at most one entry for each timer id of the map, across
\* addFunc, start(), stop() and the detector's steps.
C17_OneEntryPerTimer ==
  \A id \in DOMAIN m_timers : EntriesOf(id) <= 1

\* C18: after stop() every detector thread leaves its loop in the end, with no
\* later addFunc or start() to wake it.
C18_DetectorExits ==
  \A i \in 1..MaxThreads :
    (m_stop /\ i \in DOMAIN detect)
      ~> (~m_stop \/ (i \in DOMAIN detect /\ detect[i].pc = "done"))

\* The arguments break one of the rules of addFunc: a null date, end_date not
\* after start_date, a time of day outside (0, 24h), end_time before
\* start_time, repeat_num below 1, or a duration that is not positive.
BreaksARule(a) ==
  \/ a.start_date = Datetime_null
  \/ a.end_date = Datetime_null
  \/ a.end_date <= a.start_date
  \/ a.start_time <= 0 \/ a.start_time >= DayLen
  \/ a.end_time <= 0 \/ a.end_time >= DayLen
  \/ a.end_time < a.start_time
  \/ a.repeat_num < 1
  \/ a.duration <= 0

\* C19: addFunc with arguments that break a rule throws and leaves the timer
\* map, the heap and the id counter as they were.
C19_InvalidArgsRejected ==
  [][\A a \in AnyArgs :
       (call.pc = "idle" /\ BreaksARule(a) /\ addFunc(a))
         => /\ call'.pc = "idle" /\ call'.raised
            /\ UNCHANGED <<m_timers, m_queue, m_current_timer_id>>]_vars

\* A call has thrown after another one was accepted.
C19_Witness ==
  /\ call.pc = "idle" /\ call.raised
  /\ m_timers # << >>
  /\ m_queue # EmptyBag

\* The step is _addFunc's under the lock.
InsertStep == call.pc = "add_insert" /\ call'.pc # "add_insert"

\* C20: _addFunc gives the new timer an id that is not negative and not the
\* id of a timer in the map, and touches no other timer, also after the
\* counter has passed max_int; when no id is allocated the call throws and
\* neither the map nor the heap gains an entry.
C20_FreshId ==
  [][InsertStep =>
       \/ /\ call'.raised
          /\ UNCHANGED <<m_timers, m_queue>>
       \/ /\ ~call'.raised
          /\ m_current_timer_id' >= 0
          /\ m_current_timer_id' \notin DOMAIN m_timers
          /\ DOMAIN m_timers' = (DOMAIN m_timers) \cup {m_current_timer_id'}
          /\ \A id \in DOMAIN m_timers : m_timers'[id] = m_timers[id]
          /\ m_timers'[m_current_timer_id'].func = Len(registered')
          /\ BagCardinality(m_queue') = BagCardinality(m_queue) + 1]_vars

\* The counter has passed max_int (the newest timer's id is below its rank)
\* and the loop has skipped an id in use: the timer registered just before
\* holds id x, the id after x is in use by an older one, and the newest
\* timer got another.
C20_Witness ==
  \E x \in DOMAIN m_timers :
    /\ m_timers[x].func = Len(registered) - 1
    /\ NextId(x) \in DOMAIN m_timers
    /\ m_timers[NextId(x)].func < Len(registered) - 1
    /\ m_current_timer_id \in DOMAIN m_timers
    /\ m_timers[m_current_timer_id].func = Len(registered)
    /\ m_current_timer_id + 1 < Len(registered)

\* The step submits a callback to the pool.
SubmitStep == Len(m_tg'.tasks) = Len(m_tg.tasks) + 1

\* C21: a task registered with addFuncAtPoint(time_point) is dispatched once
\* at most, and not before time_point - Lead (the instant its timer's window
\* opens: start_date + start_time), whatever the clock was at registration.
C21_NotBeforePoint ==
  /\ [](\A f \in 1..Len(registered) : Submitted(f) <= 1)
  /\ [][SubmitStep =>
          LET f == Last(m_tg'.tasks).func
          IN  clock >= registered[f].start_date + registered[f].start_time]_vars

\* C22: no callback of a timer is submitted before the timer's start_date,
\* whether the timer was added before start() or while the scheduler runs.
C22_NotBeforeStartDate ==
  [][SubmitStep =>
       clock >= registered[Last(m_tg'.tasks).func].start_date]_vars

\* The step is the first of a call of start().
StartStep == call.pc = "idle" /\ call'.pc \in {"start_rebuild", "start_return"}

\* C23: start() called while the scheduler runs has no effect: its steps
\* leave the heap, the timer map, the detector threads, m_stop and the pool as
\* they were, and it returns.
C23_StartWhileRunning ==
  /\ [][(StartStep /\ ~m_stop) =>
          /\ call'.pc = "start_return"
          /\ UNCHANGED <<m_queue, m_timers, detect, m_stop, m_tg>>]_vars
  /\ [][(call.pc = "start_return" /\ call'.pc # "start_return") =>
          /\ call'.pc = "idle"
          /\ UNCHANGED <<m_queue, m_timers, detect, m_stop, m_tg>>]_vars

\* start() has been called on a running scheduler that has a timer in its
\* map, an entry in its heap and a detector thread, and is about to return.
C23_Witness ==
  /\ call.pc = "start_return"
  /\ ~m_stop
  /\ m_timers # << >>
  /\ m_queue # EmptyBag
  /\ Len(detect) = 1

\* The engine's own state and the state of its plugins.
EngineState ==
  <<tm, m_buyRequest, m_sellRequest, m_sellShortRequest, m_buyShortRequest,
    m_trade_list, m_lastTakeProfit, m_lastShortTakeProfit, m_pre_ev_valid,
    m_pre_cn_valid, m_buy_days, m_sell_short_days>>

\* C24: with TradeManager, MoneyManager or Signal missing, run() is a no-op:
\* runMoment is never called, and the trade list, the four requests, the
\* flags, the trackers and the plugins are after the call as before it.
C24_MissingPluginNoOp ==
  /\ [](~readyForRun => (~running /\ now = 0))
  /\ [][~readyForRun => UNCHANGED EngineState]_vars

\* The engine's own state as System::System leaves it.
EngineFresh ==
  /\ m_trade_list = <<>>
  /\ m_buyRequest = ClearedRequest
  /\ m_sellRequest = ClearedRequest
  /\ m_sellShortRequest = ClearedRequest
  /\ m_buyShortRequest = ClearedRequest
  /\ m_lastTakeProfit = 0
  /\ m_lastShortTakeProfit = 0
  /\ m_buy_days = 0
  /\ m_sell_short_days = 0
  /\ m_pre_ev_valid = TRUE
  /\ m_pre_cn_valid = TRUE

\* C25: reset() leaves the engine's own state (trade list, the four requests,
\* the take-profit trackers, the day counters, m_pre_ev_valid and
\* m_pre_cn_valid) as the constructor leaves it, and a second reset() changes
\* nothing more.
C25_ResetIsFresh ==
  [][Reset => (EngineFresh' /\ reset(reset(Sys)) = reset(Sys))]_vars

\* C26: clone() yields a System whose members (trade list, requests,
\* take-profit trackers, counters, validity flags, and the state of its
\* TradeManager) equal the original's at that moment; afterwards no runMoment
\* (with the request it submits or the trade it makes) and no reset on the
\* clone changes the original or its plugins, and no step of the original
\* changes the clone.
C26_CloneIndependent ==
  /\ [][(~twin.made /\ twin'.made) => (twin'.s = Sys /\ UNCHANGED svars)]_vars
  /\ [][(twin.made /\ twin' # twin) => UNCHANGED svars]_vars
  /\ [][(twin.made /\ ~UNCHANGED svars) => twin' = twin]_vars

\* The clone was made after the original's first trade and has sold since:
\* it holds nothing and has two trades, the original holds its position and
\* has one.
C26_Witness ==
  /\ twin.made
  /\ Len(m_trade_list) = 1
  /\ tm.number > 0
  /\ Len(twin.s.trade_list) = 2
  /\ twin.s.tm.number = 0

\* The rank of a record's datetime when the null Datetime (of a null record)
\* ranks as nullRank.
DatetimeRank(tr, nullRank) == IF tr.datetime = 0 THEN nullRank ELSE tr.datetime

\* C27: with the bars fed in increasing order of datetime, m_trade_list is in
\* non-decreasing order of datetime after any sequence of immediate trades,
\* delayed executions and forced sells, whether the null Datetime ranks
\* before every date or after.
C27_TradeListOrdered ==
  \E nullRank \in {Datetime_min, Datetime_max} :
    \A i \in 1..(Len(m_trade_list) - 1) :
      DatetimeRank(m_trade_list[i], nullRank)
        <= DatetimeRank(m_trade_list[i + 1], nullRank)

\* C28: a valid request has 1 <= count <= max_delay_count in every reachable
\* state: a re-submission adds one to the count and the request is cleared as
\* soon as the count would pass max_delay_count.
C28_CountWithinBound ==
  \A req \in {m_buyRequest, m_sellRequest, m_sellShortRequest, m_buyShortRequest} :
    req.valid => (1 <= req.count /\ req.count <= getParam("max_delay_count"))

\* What the phases of _runMoment decide on the bar kr with the answers a,
\* after the delayed order has been processed.
Decision(kr, a) ==
  Decide([_processRequest([Sys EXCEPT !.buy_days = @ + 1, !.sell_short_days = @ + 1],
                          kr, a.x) EXCEPT !.ret = NullTradeRecord], kr, a.d)

\* C29: on a bar for which ProfitGoal.get answers 0 (no goal), the phases
\* issue no exit from PROFITGOAL, whatever the close.
C29_NoGoalNoExit ==
  [][BarStep =>
       \A a \in RunMomentAnswers(Sys, today') :
         (/\ Commit(runMoment(Sys, today', a))
          /\ ~DegenerateGate(today')
          /\ a.d.goal = 0)
           => ~(/\ Decision(today', a).op = "sell"
                /\ Decision(today', a).from = "PROFITGOAL")]_vars

\* C30: an exit from ENVIRONMENT is issued on exactly the bars on which
\* Environment.isValid is false, was true on the bar processed before, and a
\* long position is held.
C30_EnvironmentExit ==
  [][BarStep =>
       \A a \in RunMomentAnswers(Sys, today') :
         (Commit(runMoment(Sys, today', a)) /\ ~DegenerateGate(today'))
           => ((/\ Decision(today', a).op = "sell"
                /\ Decision(today', a).from = "ENVIRONMENT")
                 <=> (/\ ~a.d.ev
                      /\ m_pre_ev_valid
                      /\ have(Decision(today', a).s)))]_vars


\* C31: an entry from ENVIRONMENT (from CONDITION, on the bars that pass the
\* environment) is issued on exactly the bars on which the part is valid, was
\* invalid on the bar passed before it, and ev_open_position
\* (cn_open_position) is set; with the parameter off no entry of that origin
\* is issued.
C31_OpenPositionEntry ==
  [][BarStep =>
       \A a \in RunMomentAnswers(Sys, today') :
         (Commit(runMoment(Sys, today', a)) /\ ~DegenerateGate(today'))
           => LET dec == Decision(today', a)
                  e == EnvironmentPhase(
                         _processRequest([Sys EXCEPT !.buy_days = @ + 1,
                                                     !.sell_short_days = @ + 1],
                                         today', a.x), a.d.ev)
              IN  /\ (dec.op = "buy" /\ dec.from = "ENVIRONMENT")
                       <=> (/\ a.d.ev
                            /\ now > 0 /\ ~m_pre_ev_valid
                            /\ getParam("ev_open_position"))
                  /\ ~e.done =>
                       ((dec.op = "buy" /\ dec.from = "CONDITION")
                          <=> (/\ a.d.cn
                               /\ now > 0 /\ ~m_pre_cn_valid
                               /\ getParam("cn_open_position")))]_vars


\* The state in which runMoment calls _runMoment: the day counters are up.
Entered == [Sys EXCEPT !.buy_days = @ + 1, !.sell_short_days = @ + 1]

\* C32: after every executed long entry, by _buyDelay on the bar that processes
\* the buy request and by _buyNow on the bar of the decision, m_lastTakeProfit
\* is the realPrice of the entry.
C32_EntrySeedsTakeProfit ==
  [][BarStep =>
       \A a \in RunMomentAnswers(Sys, today') :
         (Commit(runMoment(Sys, today', a)) /\ ~DegenerateGate(today'))
           => LET s1 == _processRequest(Entered, today', a.x)
                  s2 == Issue(Decision(today', a), today', a.o)
              IN  /\ s1.ret.business = "BUY"
                       => s1.lastTakeProfit = s1.ret.realPrice
                  /\ s2.ret.business = "BUY"
                       => s2.lastTakeProfit = s2.ret.realPrice]_vars


\* C33: after an executed sell that leaves nothing held, by _sellNow, by
\* _sellDelay or by _sellForce, m_lastTakeProfit is 0: it is 0 whenever the last
\* trade is a sell and the stock is not held.
C33_FullExitClearsTakeProfit ==
  (/\ Len(m_trade_list) > 0
   /\ Last(m_trade_list).business = "SELL"
   /\ tm.number = 0)
    => m_lastTakeProfit = 0


\* C34: with tp_monotonic off, on a bar that comes to the take-profit test the
\* close is compared with the price TakeProfit.get answers for that bar: the
\* exit from TAKEPROFIT is issued if and only if the close is at or under it.
C34_TakeProfitNotMonotonic ==
  [][BarStep =>
       \A a \in RunMomentAnswers(Sys, today') :
         (/\ Commit(runMoment(Sys, today', a))
          /\ ~DegenerateGate(today')
          /\ ~getParam("tp_monotonic")
          /\ Decision(today', a).from = "TAKEPROFIT")
           => (Decision(today', a).op = "sell"
                 <=> today'.closePrice <= a.d.tp)]_vars


\* The callback the step submits.
Fired == Last(m_tg'.tasks)

\* The step is thread i's submission for a timer with a daily window that
\* stays in the map, and the instant after the fire passes the end_time of
\* the day of the now the thread read.
WindowRoll(i, id) ==
  /\ SubmitStep
  /\ i \in DOMAIN detect /\ detect[i].pc = "lock" /\ detect'[i].pc = "check"
  /\ id \in DOMAIN m_timers'
  /\ m_timers'[id].func = Fired.func
  /\ m_timers[id].start_time # m_timers[id].end_time
  /\ Fired.point + m_timers[id].duration
       > startOfDay(detect[i].now) + m_timers[id].end_time

\* The entries the step adds to the heap.
Pushed == BagToSet(m_queue' (-) m_queue)

\* C35, as stated: on such a step the timer's next entry is the start_time of
\* the next day plus one tick (the least TimeDelta), later than the fire.
C35_RollPlusOne ==
  [][\A i \in 1..MaxThreads : \A id \in 0..max_int :
       WindowRoll(i, id) =>
         /\ Pushed # {}
         /\ \A e \in Pushed :
              /\ e.timer_id = id
              /\ e.time_point = startOfDay(detect[i].now) + DayLen
                                  + m_timers[id].start_time + 1
              /\ e.time_point > Fired.point]_vars

\* C35: on such a step the timer's next entry is the start_time of the day
\* after the day of the now the thread read, which is later than the instant
\* of the fire and than that now.
C35_RollToNextDay ==
  [][\A i \in 1..MaxThreads : \A id \in 0..max_int :
       WindowRoll(i, id) =>
         /\ Pushed # {}
         /\ \A e \in Pushed :
              /\ e.timer_id = id
              /\ e.time_point = startOfDay(detect[i].now) + DayLen
                                  + m_timers[id].start_time
              /\ e.time_point > Fired.point
              /\ e.time_point > detect[i].now]_vars

\* A windowed timer added to a running scheduler has fired once, and its one
\* entry in the heap is at the start_time of the next day.
C35_Witness ==
  \E id \in DOMAIN m_timers :
    /\ m_timers[id].start_time # m_timers[id].end_time
    /\ Submitted(m_timers[id].func) = 1
    /\ EntriesOf(id) = 1
    /\ \E e \in BagToSet(m_queue) :
         /\ e.timer_id = id
         /\ e.time_point = DayLen + m_timers[id].start_time


\* C36: no callback of a timer with a finite end_date is scheduled for (and so
\* dispatched at) an instant later than end_date + end_time, the first one
\* after addFunc and the first one after a stop() and a start() included.
C36_NotAfterEnd ==
  \A f \in 1..Len(registered) :
    registered[f].end_date # Datetime_max =>
      \A j \in 1..Submitted(f) :
        TasksOf(f)[j].point <= registered[f].end_date + registered[f].end_time


\* The detectThread threads that have not left the loop.
InLoop == {i \in DOMAIN detect : detect[i].pc # "done"}

\* C37: at most one detectThread thread is in the detect loop, whatever the
\* calls of start() and stop() and their interleaving with the threads.
C37_OneDetector == Cardinality(InLoop) <= 1


\* The step is a call of _buyShort on the current bar.
CoverStep == now' = now /\ now > 0

\* C38: when a buy-to-cover request is submitted again after its count has
\* passed max_delay_count, that request becomes invalid and the pending
\* long-buy request stays as it was.
C38_CoverRequestDropped ==
  [][(/\ CoverStep
      /\ getParam("delay")
      /\ m_buyShortRequest.valid
      /\ m_buyShortRequest.count > getParam("max_delay_count"))
       => /\ ~m_buyShortRequest'.valid
          /\ m_buyRequest' = m_buyRequest]_vars


\* What Condition.isValid is for the bar kr when the answers are a: the answer
\* given if the plugin was asked, any answer it can give if _runMoment
\* returned before asking.
ConditionOn(kr, a) ==
  IF EnvironmentPhase(_processRequest(Entered, kr, a.x), a.d.ev).done
    THEN CnAnswers
    ELSE {a.d.cn}

\* C39: on a bar on which the environment or the condition is invalid the
\* phases issue no long entry (no call of _buy), whatever the signal says.
C39_NoEntryWhenInvalid ==
  [][BarStep =>
       \A a \in RunMomentAnswers(Sys, today') :
         (Commit(runMoment(Sys, today', a)) /\ ~DegenerateGate(today'))
           => \A cn \in ConditionOn(today', a) :
                (~a.d.ev \/ ~cn) => Decision(today', a).op # "buy"]_vars


\* C40: the destructor uses the worker pool only if the pool has been made:
\* when it comes to m_tg->stop(), m_tg is not null, also when start() was never
\* called; and it never crashes.
C40_DestructorSafe ==
  /\ call.pc = "dtor_pool" => m_tg.made
  /\ call.pc # "crashed"

====
